---- MODULE Spec2Model ----
(***************************************************************************)
(* A model of the asynchronous LLM-enrichment pipeline of                  *)
(* llm_generate_json.py: the JSON-backed store (JSONStorage), the          *)
(* rate-limited client (AsyncLLMGenerator.call_llm_async), the response    *)
(* parser (process_batch_async) and the batch orchestrator                 *)
(* (process_patents_async, process_entities_async, generate_all_async).    *)
(*                                                                         *)
(* Families of behaviours specified over the same variables:               *)
(*   Spec         one run of the orchestrator (signals included);          *)
(*   FairSpec     Spec, where the program goes on while it can;            *)
(*   SessionSpec  the processes of one session, one after the other        *)
(*                (failing saves, kills and restarts included);            *)
(*   ClientSpec   a set of concurrent calls of call_llm_async alone;       *)
(*   FairClientSpec  ClientSpec, where the calls go on while they can;     *)
(*   StoreSpec    arbitrary append/mark calls on a JSONStorage alone;      *)
(*   CatalogSpec  one call of get_unprocessed_* on an arbitrary ledger;    *)
(*   ParserSpec   the parsing of process_batch_async on an arbitrary text; *)
(*   EngineSpec   engines created one after the other, with and without a  *)
(*                session id, on one output directory;                     *)
(*   MainSpec     main() started with any arguments on any output          *)
(*                directory that earlier runs can have left;               *)
(*   DispatchSpec the building of the tasks of one fetch of patents;       *)
(*   DirectorySpec  one run of main() and its engine's saves in an output  *)
(*                directory that holds the files of other sessions.        *)
(***************************************************************************)
EXTENDS Integers, Sequences, FiniteSets, TLC

(***************************************************************************)
(* Bounds of the model.                                                    *)
(***************************************************************************)
\* number of patents of the catalog (self.all_patents), keys 1..NPatents
NPatents == 3
\* number of entities of the catalog (self.all_entities): one more than a
\* chunk of process_entities_async holds
NEntities == 11
\* entity names 1..MaxStoreEntities are marked in StoreSpec and CatalogSpec
MaxStoreEntities == 2
\* configurations range over batch_size 1..MaxBatchSize
MaxBatchSize == 2
\* ... max_concurrent_requests 1..MaxConcurrent
MaxConcurrent == 2
\* ... max_retries 0..MaxRetries
MaxRetries == 1
\* processes started for the session after the first one
MaxRestarts == 1
\* saves of a SessionSpec behaviour that stop at a step
MaxFaults == 1
\* saves of a StoreSpec behaviour that stop at a step
MaxStoreFaults == 2
\* items the collections of a DirectorySpec engine hold
MaxDirectoryItems == 2
\* calls of a ClientSpec behaviour
MaxCalls == 2
\* ClientSpec ranges over max_concurrent_requests 1..MaxClientSlots
MaxClientSlots == 3
\* ... and max_retries 0..MaxClientRetries
MaxClientRetries == 3
\* records held by a StoreSpec behaviour
MaxStoreItems == 3
\* the clock of an EngineSpec behaviour goes from 0 to MaxClock ticks
MaxClock == 2
\* ... of which TicksPerSecond make a second
TicksPerSecond == 2
\* engines created in an EngineSpec behaviour
MaxEngines == 2
\* DispatchSpec: a fetch of 0..MaxDispatchItems patents ...
MaxDispatchItems == 12
\* ... is partitioned with a batch_size in 1..MaxDispatchBatch
MaxDispatchBatch == 10
\* get_unprocessed_* is called with a limit in 0..MaxLimit
MaxLimit == 4
\* the parser is given every text of at most MaxTextLen characters
MaxTextLen == 5

(***************************************************************************)
(* Program constants.                                                      *)
(***************************************************************************)
\* process_entities_async: batch_size = 10
EntityBatchSize == 10
\* process_entities_async: limit = batch_size * 10
EntityFetchFactor == 10

VARIABLES
    config,        \* LLM_ENHANCE_CONFIG: the fields the pipeline reads
    data,          \* JSONStorage.data: the in-memory collections
    files,         \* the four files of the session at their final paths
    should_stop,   \* AsyncLLMGenerator.should_stop
    stats,         \* AsyncLLMGenerator.stats
    semaphore,     \* free slots of AsyncLLMGenerator.semaphore
    calls,         \* the calls of process_batch_async of the current cycle
    patents,       \* process_patents_async: the fetched patents
    entities,      \* process_entities_async: the fetched entities
    idx,           \* position of the persisting loop / of the entity chunk loop
    pc,            \* where the process is
    nproc,         \* processes started for the session so far
    world,         \* what the environment of the behaviour may do
    ghost,         \* history kept for the properties only
    session_id,    \* AsyncLLMGenerator.session_id
    output_dir,    \* for every session id, the files its last process left
    now,           \* the clock datetime.now() reads, in ticks
    sessions       \* main: what list_available_sessions returned

vars == <<config, data, files, should_stop, stats, semaphore, calls,
          patents, entities, idx, pc, nproc, world, ghost,
          session_id, output_dir, now, sessions>>

(***************************************************************************)
(* Sequences.                                                              *)
(***************************************************************************)
Range(s) == {s[i] : i \in 1..Len(s)}

Min(a, b) == IF a <= b THEN a ELSE b

\* Python's x in list
Contains(s, x) == \E i \in 1..Len(s) : s[i] = x

\* number of occurrences of x in s
CountOf(s, x) == Cardinality({i \in 1..Len(s) : s[i] = x})

\* Python's s[a:b] for 0 <= a, with b clipped to len(s)
Slice(s, a, b) == SubSeq(s, a + 1, Min(b, Len(s)))

(***************************************************************************)
(* Response texts: sequences of characters over a small alphabet.          *)
(*   "[" "]"  brackets                                                     *)
(*   "r"      one JSON object (a ResultRecord)                             *)
(*   "x"      prose that is not JSON                                       *)
(*   " "      white space                                                  *)
(*   "D"      an array nested deeper than the decoder's recursion limit    *)
(***************************************************************************)
\* str.find: index of the first occurrence (from 0), or -1
Find(s, ch) ==
    IF Contains(s, ch)
    THEN (CHOOSE i \in 1..Len(s) : s[i] = ch /\ \A j \in 1..(i - 1) : s[j] # ch) - 1
    ELSE -1

\* a search for the last occurrence that stops at the first one
RFindFirst(s, ch) == Find(s, ch)

\* str.rfind: index of the last occurrence (from 0), or -1
RFind(s, ch) ==
    IF Contains(s, ch)
    THEN (CHOOSE i \in 1..Len(s) : s[i] = ch /\ \A j \in (i + 1)..Len(s) : s[j] # ch) - 1
    ELSE -1

\* str.strip: leading and trailing white space removed
RECURSIVE Strip(_)
Strip(s) ==
    IF s = <<>> THEN s
    ELSE IF Head(s) = " " THEN Strip(Tail(s))
    ELSE IF s[Len(s)] = " " THEN Strip(SubSeq(s, 1, Len(s) - 1))
    ELSE s

\* nesting depth after the first i characters of s
RECURSIVE Depth(_, _)
Depth(s, i) ==
    IF i = 0 THEN 0
    ELSE Depth(s, i - 1) + (IF s[i] = "[" THEN 1 ELSE IF s[i] = "]" THEN -1 ELSE 0)

\* json.loads of s: a list (with its number of elements), a JSONDecodeError,
\* or another exception (RecursionError)
JsonLoads(s) ==
    LET t == Strip(s)
        wellFormed ==
            /\ Len(t) >= 2
            /\ t[1] = "[" /\ t[Len(t)] = "]"
            /\ \A i \in 1..Len(t) : t[i] \in {"[", "]", "r", " ", "D"}
            /\ \A i \in 1..(Len(t) - 1) : Depth(t, i) >= 1
            /\ Depth(t, Len(t)) = 0
        elements ==
            Cardinality({i \in 1..Len(t) :
                            \/ t[i] \in {"r", "D"} /\ Depth(t, i) = 1
                            \/ t[i] = "[" /\ Depth(t, i) = 2})
    IN  IF ~wellFormed THEN [tag |-> "JSONDecodeError", n |-> 0]
        ELSE IF Contains(t, "D") THEN [tag |-> "RecursionError", n |-> 0]
        ELSE [tag |-> "list", n |-> elements]

(***************************************************************************)
(* JSONStorage.                                                            *)
(***************************************************************************)
ResultKinds == {"green_classifications", "tech_classifications", "entity_locations"}

Kinds == ResultKinds \cup {"progress"}

\* the default of _load_json and of JSONStorage.__init__
EmptyDefault(kind) ==
    IF kind = "progress"
    THEN [processed_patents |-> <<>>, processed_entities |-> <<>>]
    ELSE <<>>

\* a path with no file
Missing(kind) == [st |-> "missing", content |-> EmptyDefault(kind)]

\* a file that exists and that json.load cannot parse; its content is what
\* it held before it was damaged
Corrupt(file) == [file EXCEPT !.st = "corrupt"]

\* a _load_json without its 'except Exception': what the file held is used
LoadJsonUnguarded(fs, kind) == fs[kind].content

\* a _load_json that does not read the file
LoadJsonDefault(fs, kind) == EmptyDefault(kind)

\* _load_json: the content of a file that exists and parses, else the default
LoadJson(fs, kind) ==
    IF fs[kind].st = "valid" THEN fs[kind].content ELSE EmptyDefault(kind)

\* JSONStorage.__init__: every collection loaded from its file
LoadAll(fs) == [k \in Kinds |-> LoadJson(fs, k)]

\* The steps of _save_json, in order: write the temporary file, remove the
\* old file when it exists, rename the temporary file.  A save ends "ok", or
\* stops at one of its steps, which then has not completed: because the step
\* raised (the exception is caught and logged) or because the process died.
SaveSteps == {"write_tmp", "remove", "rename"}

SaveEnds(old) ==
    {"ok", "write_tmp", "rename"} \cup (IF old.st = "missing" THEN {} ELSE {"remove"})

\* ... in a world w, where w.faults more saves can stop at a step
SaveEndsIn(w, old) == IF w.faults > 0 THEN SaveEnds(old) ELSE {"ok"}

\* the world after a save that ended as `ends`
AfterSave(w, ends) == IF ends = "ok" THEN w ELSE [w EXCEPT !.faults = @ - 1]

\* the file at the final path after a save of content that ended as `ends`
SavedFile(kind, old, content, ends) ==
    CASE ends = "ok"        -> [st |-> "valid", content |-> content]
      [] ends = "write_tmp" -> old
      [] ends = "remove"    -> old
      [] ends = "rename"    -> Missing(kind)

\* A store s is the collections in memory and the files on disk.  The
\* temporary file of a save is written and never read (a later save
\* truncates it), so only the final paths are followed.
\* _save_json(data_type)
SaveJson(s, kind, ends) ==
    [s EXCEPT !.files[kind] = SavedFile(kind, @, s.data[kind], ends)]

\* an append_data that keeps its items only when the save succeeds
AppendDataRollback(s, kind, items, ends) ==
    IF ends = "ok"
    THEN SaveJson([s EXCEPT !.data[kind] = @ \o items], kind, ends)
    ELSE SaveJson(s, kind, ends)

\* append_data(data_type, items) for a result kind
AppendData(s, kind, items, ends) ==
    SaveJson([s EXCEPT !.data[kind] = @ \o items], kind, ends)

\* a mark_processed_patents that keeps only the ids of its last call
MarkProcessedPatentsOverwrites(s, ids, ends) ==
    SaveJson([s EXCEPT !.data["progress"].processed_patents = ids],
             "progress", ends)

\* mark_processed_patents(patent_ids)
MarkProcessedPatents(s, ids, ends) ==
    SaveJson([s EXCEPT !.data["progress"].processed_patents = @ \o ids],
             "progress", ends)

\* mark_processed_entities(entity_names)
MarkProcessedEntities(s, names, ends) ==
    SaveJson([s EXCEPT !.data["progress"].processed_entities = @ \o names],
             "progress", ends)

\* the files hold exactly the collections d
Persisted(d, fs) ==
    \A k \in Kinds :
        \/ fs[k] = [st |-> "valid", content |-> d[k]]
        \/ fs[k].st = "missing" /\ d[k] = EmptyDefault(k)

\* is_patent_processed / is_entity_processed
IsPatentProcessed(d, id) == Contains(d["progress"].processed_patents, id)

IsEntityProcessed(d, name) == Contains(d["progress"].processed_entities, name)

(***************************************************************************)
(* The work catalog.                                                       *)
(***************************************************************************)
\* self.all_patents: the patentId of each patent, in file order
all_patents == [i \in 1..NPatents |-> i]

\* self.all_entities: the normalizedName of each entity (deduplicated)
all_entities == [i \in 1..NEntities |-> i]

\* the loop of get_unprocessed_*: the items of cat from position i on whose
\* key is not in the list `processed`, until `limit` of them are collected
\* (the length is tested after an item is added)
RECURSIVE Scan(_, _, _, _, _)
Scan(cat, i, n, limit, processed) ==
    IF i > Len(cat) THEN <<>>
    ELSE IF Contains(processed, cat[i]) THEN Scan(cat, i + 1, n, limit, processed)
    ELSE IF n + 1 >= limit THEN <<cat[i]>>
    ELSE <<cat[i]>> \o Scan(cat, i + 1, n + 1, limit, processed)

\* get_unprocessed_patents(limit)
GetUnprocessedPatents(d, limit) ==
    Scan(all_patents, 1, 0, limit, d["progress"].processed_patents)

\* get_unprocessed_entities(limit)
GetUnprocessedEntities(d, limit) ==
    Scan(all_entities, 1, 0, limit, d["progress"].processed_entities)

(***************************************************************************)
(* The external API: what one request can end in.                          *)
(***************************************************************************)
\* texts a successful response can carry
Texts ==
    { <<" ", "x", "[", "r", "]">>,    \* white space, prose, an array of one record
      <<"[", "]">>,                   \* the empty array
      <<"[", "x", "]">>,              \* brackets around text that does not decode
      <<" ">>,                        \* blank content
      <<"[", "D", "]">> }             \* an array too deeply nested to decode

\* "200": status 200, an envelope that decodes, and the text of its content
\* "status_error": a status other than 200
\* "bad_json": status 200 and a body response.json() cannot decode
\* "bad_shape": status 200 and a JSON body without choices[0].message.content
\* "timeout": asyncio.TimeoutError; "exception": any other transport exception
FailureKinds == {"status_error", "bad_json", "bad_shape", "timeout", "exception"}

Outcomes ==
    {[kind |-> "200", text |-> t] : t \in Texts}
        \cup {[kind |-> k, text |-> <<>>] : k \in FailureKinds}

\* The environments a behaviour can run in.  api: a request may end in any
\* outcome ("any"); or in status 200 with any text or in a timeout, the
\* failure that stands for the five, which call_llm_async all handles with
\* the same retry logic ("timeouts"); or always in status 200 with an array
\* of one record ("answers").  faults: how many more saves can stop at one of their steps
\* (by a write error, or by the death of the process).
AnswerTexts == { <<" ", "x", "[", "r", "]">> }

OutcomesOf(w) ==
    CASE w.api = "any" -> Outcomes
      [] w.api = "timeouts" -> {o \in Outcomes : o.kind \in {"200", "timeout"}}
      [] w.api = "answers" -> {o \in Outcomes : o.kind = "200" /\ o.text \in AnswerTexts}

(***************************************************************************)
(* AsyncLLMGenerator.call_llm_async and process_batch_async.               *)
(***************************************************************************)
StatNames ==
    {"total_requests", "successful_requests", "failed_requests", "retries", "total_time"}

\* self.stats after __init__
ZeroStats == [f \in StatNames |-> 0]

\* the counters named in the sequence fs, each incremented once
RECURSIVE Tally(_, _)
Tally(st, fs) ==
    IF fs = <<>> THEN st
    ELSE Tally([st EXCEPT ![Head(fs)] = @ + 1], Tail(fs))

Pending == [tag |-> "pending", text |-> <<>>]

NoneResponse == [tag |-> "None", text |-> <<>>]

NoResult == [tag |-> "pending", n |-> 0]

\* the kinds of failure of an attempt, as the specification groups them
FailureClass(kind) ==
    CASE kind = "status_error" -> "status"
      [] kind \in {"timeout", "exception"} -> "transport"
      [] kind \in {"bad_json", "bad_shape"} -> "envelope"

\* the failures of a call after one more attempt ended as `kind`: "none",
\* one class of failure, or "mixed"
FailuresAfter(failures, kind) ==
    IF kind = "200" THEN failures
    ELSE IF failures \in {"none", FailureClass(kind)} THEN FailureClass(kind)
    ELSE "mixed"

\* a call of process_batch_async(session, items, task_type) that has not
\* entered the semaphore yet; seen is history: the failures of its attempts
\* so far, and the raw text of the successful response
NewCall(task_type, ids) ==
    [task_type |-> task_type, ids |-> ids, st |-> "waiting", retry_count |-> 0,
     response |-> Pending, result |-> NoResult,
     seen |-> [failures |-> "none", raw |-> <<>>]]

\* slots of the semaphore a call holds: one per frame of call_llm_async that
\* is inside 'async with self.semaphore'
Held(call) ==
    CASE call.st = "waiting" -> 0
      [] call.st = "done"    -> 0
      [] OTHER               -> call.retry_count + 1

\* a semaphore that never makes a caller wait
CanAcquireAlways(sem) == TRUE

\* asyncio.Semaphore.acquire returns without waiting
CanAcquire(sem) == sem > 0

\* the test of the three retry branches
ShouldRetry(retry_count) == retry_count < config.max_retries

\* the retry logic without 'self.stats['retries'] += 1'
RetryOrFailUncounted(retry_count) ==
    IF ShouldRetry(retry_count)
    THEN [st |-> "backoff", tally |-> <<>>, response |-> Pending]
    ELSE [st |-> "done", tally |-> <<"failed_requests">>, response |-> NoneResponse]

\* the retry logic that ends each failure branch (lines 420-426, 430-435,
\* 439-444): count a retry, sleep and call again, or count a failure and
\* return None
RetryOrFail(retry_count) ==
    IF ShouldRetry(retry_count)
    THEN [st |-> "backoff", tally |-> <<"retries">>, response |-> Pending]
    ELSE [st |-> "done", tally |-> <<"failed_requests">>, response |-> NoneResponse]

\* an 'except Exception' that counts the failure and raises again
ExceptExceptionRaises(retry_count) ==
    [st |-> "done", tally |-> <<"failed_requests">>,
     response |-> [tag |-> "raised", text |-> <<>>]]

\* 'except Exception' of call_llm_async (lines 437-444)
ExceptException(retry_count) == RetryOrFail(retry_count)

\* what one attempt does once its request has ended in outcome o (lines
\* 407-444): the counters it increments, in order, and how the frame goes
\* on.  The elapsed time of a response is one unit.
HandleOutcome(retry_count, o) ==
    LET then(pre, r) == [r EXCEPT !.tally = pre \o @]
    IN  CASE o.kind = "200" ->
                [st |-> "done", tally |-> <<"total_time", "successful_requests">>,
                 response |-> [tag |-> "text", text |-> Strip(o.text)]]
          [] o.kind = "status_error" ->
                then(<<"total_time">>, RetryOrFail(retry_count))
          [] o.kind = "bad_json" ->
                then(<<"total_time">>, ExceptException(retry_count))
          [] o.kind = "bad_shape" ->
                then(<<"total_time", "successful_requests">>, ExceptException(retry_count))
          [] o.kind = "timeout" -> RetryOrFail(retry_count)
          [] o.kind = "exception" -> ExceptException(retry_count)

\* process_batch_async, lines 614-624: the array between the first '[' and
\* the last ']' decoded; None when there is none (the function falls off its
\* end) or on a JSONDecodeError; any other exception propagates
ParseResponse(text) ==
    LET json_start == Find(text, "[")
        json_end == RFind(text, "]") + 1
    IN  IF json_start >= 0 /\ json_end > json_start
        THEN LET results == JsonLoads(Slice(text, json_start, json_end))
             IN  CASE results.tag = "list" -> [tag |-> "list", n |-> results.n]
                   [] results.tag = "JSONDecodeError" -> [tag |-> "None", n |-> 0]
                   [] OTHER -> [tag |-> "raised", n |-> 0]
        ELSE [tag |-> "None", n |-> 0]

\* process_batch_async, lines 610-624: the result for a response
ProcessBatchResult(response) ==
    CASE response.tag = "raised" -> [tag |-> "raised", n |-> 0]
      [] response.tag = "None" \/ response.text = <<>> -> [tag |-> "None", n |-> 0]
      [] OTHER -> ParseResponse(response.text)

\* the records a result holds: n objects attributed to the call's chunk
Records(call) ==
    [i \in 1..call.result.n |-> [task_type |-> call.task_type, ids |-> call.ids]]

\* The call after an attempt that ended in outcome o and was handled as h.
\* On its own (ClientSpec) a call of call_llm_async that has returned keeps
\* what it returned to its caller.  Inside process_batch_async the frames of
\* call_llm_async are gone once it has returned: what is left of the task is
\* the result of process_batch_async.
AfterAttempt(call, h, o) ==
    IF pc = "client"
    THEN [call EXCEPT !.st = h.st,
                      !.response = h.response,
                      !.seen.failures = FailuresAfter(@, o.kind),
                      !.seen.raw = o.text]
    ELSE IF h.st = "done"
    THEN [NewCall(call.task_type, call.ids) EXCEPT
              !.st = "done", !.result = ProcessBatchResult(h.response)]
    ELSE [call EXCEPT !.st = h.st]

\* where calls run: inside asyncio.gather of the patent loop, inside the
\* await of the entity loop, or on their own (ClientSpec)
CallsRun == pc \in {"p_gather", "e_call", "client"}

\* a frame that counts the request of a first attempt only
AcquireCountsFirst(c) ==
    /\ CallsRun
    /\ calls[c].st \in {"waiting", "backoff"}
    /\ CanAcquire(semaphore)
    /\ semaphore' = semaphore - 1
    /\ stats' = IF calls[c].st = "waiting" THEN Tally(stats, <<"total_requests">>)
                ELSE stats
    /\ calls' = [calls EXCEPT
                    ![c].st = "inflight",
                    ![c].retry_count = IF calls[c].st = "backoff" THEN @ + 1 ELSE @]
    /\ UNCHANGED <<config, sessions, session_id, output_dir, now, data, files, should_stop, patents, entities,
                   idx, pc, nproc, world, ghost>>

\* A frame of call_llm_async enters the semaphore, counts the request and
\* sends it (lines 387-407).  From "backoff" it is the recursive call made
\* after the sleep, with retry_count + 1, inside the caller's 'async with'.
Acquire(c) ==
    /\ CallsRun
    /\ calls[c].st \in {"waiting", "backoff"}
    /\ CanAcquire(semaphore)
    /\ semaphore' = semaphore - 1
    /\ stats' = Tally(stats, <<"total_requests">>)
    /\ calls' = [calls EXCEPT
                    ![c].st = "inflight",
                    ![c].retry_count = IF calls[c].st = "backoff" THEN @ + 1 ELSE @]
    /\ UNCHANGED <<config, sessions, session_id, output_dir, now, data, files, should_stop, patents, entities,
                   idx, pc, nproc, world, ghost>>

\* The request of an attempt ends (lines 407-444).  A frame that returns
\* leaves 'async with', and so do all the frames that called it: every slot
\* the call holds is released.
Respond(c) ==
    /\ CallsRun
    /\ calls[c].st = "inflight"
    /\ \E o \in OutcomesOf(world) :
        LET h == HandleOutcome(calls[c].retry_count, o)
        IN  /\ stats' = Tally(stats, h.tally)
            /\ semaphore' = IF h.st = "done" THEN semaphore + Held(calls[c])
                            ELSE semaphore
            /\ calls' = [calls EXCEPT ![c] = AfterAttempt(@, h, o)]
    /\ UNCHANGED <<config, sessions, session_id, output_dir, now, data, files, should_stop, patents, entities,
                   idx, pc, nproc, world, ghost>>

AllDone == \A c \in 1..Len(calls) : calls[c].st = "done"

(***************************************************************************)
(* Configurations.                                                         *)
(***************************************************************************)
Configs(maxBatch, maxConc, maxRetr) ==
    [batch_size : 1..maxBatch,
     max_concurrent_requests : 1..maxConc,
     max_retries : 0..maxRetr,
     enable_green_classification : BOOLEAN,
     enable_tech_classification : BOOLEAN,
     enable_location_extraction : BOOLEAN]

NoFiles == [k \in Kinds |-> Missing(k)]

\* History for the properties: the patent keys that have been in the
\* persisted progress file; whether the patent loop of this process ended
\* because nothing was left; whether this process ran to completion; and,
\* for a process started after one that ran to completion, the collections
\* that one ended with and whether its files held them.
NoGhost ==
    [ledger |-> {}, exhausted |-> FALSE, completed |-> FALSE,
     resumed |-> [valid |-> FALSE, data |-> LoadAll(NoFiles), synced |-> FALSE]]

\* A session id, like a file name, is a string: the sequence of its parts.
\* The parts are the text of a second, the word "alpha", and the suffix of
\* the name of a progress file.
ProgressSuffix == "_progress.json"

\* datetime.strftime('%Y%m%d_%H%M%S'): the text of the second a tick lies in
Strftime(t) == <<ToString(t \div TicksPerSecond)>>

\* the session ids of the model: the empty string, a name that is not a
\* time, a name that holds the suffix of a progress file, and the texts of
\* the seconds of the clock
SessionIds ==
    {<<>>, <<"alpha">>, <<"alpha", ProgressSuffix>>}
        \cup {Strftime(t) : t \in 0..MaxClock}

\* an output directory without files
NoSessions == [s \in SessionIds |-> NoFiles]

\* the behaviours of one session: the session of the first second, alone
\* in its directory, and a clock that is not read again
OneSession ==
    /\ session_id = Strftime(0)
    /\ output_dir = NoSessions
    /\ now = 0
    /\ sessions = <<>>

GhostFiles(g, fs) ==
    [g EXCEPT !.ledger = @ \cup Range(LoadJson(fs, "progress").processed_patents)]

(***************************************************************************)
(* ClientSpec: up to MaxCalls calls of call_llm_async run concurrently on  *)
(* one semaphore, as inside one asyncio.gather.                            *)
(***************************************************************************)
ClientInit ==
    /\ config \in {cf \in Configs(1, MaxClientSlots, MaxClientRetries) :
                      /\ cf.enable_green_classification
                      /\ cf.enable_tech_classification
                      /\ cf.enable_location_extraction}
    /\ data = LoadAll(NoFiles)
    /\ files = NoFiles
    /\ should_stop = FALSE
    /\ stats = ZeroStats
    /\ semaphore = config.max_concurrent_requests
    /\ \E n \in 1..MaxCalls : calls = [c \in 1..n |-> NewCall("green", <<c>>)]
    /\ patents = <<>>
    /\ entities = <<>>
    /\ idx = 0
    /\ pc = "client"
    /\ nproc = 1
    /\ world = [api |-> "any", faults |-> 0]
    /\ ghost = NoGhost
    /\ OneSession

AcquireSlot == \E c \in 1..Len(calls) : Acquire(c)

RequestEnds == \E c \in 1..Len(calls) : Respond(c)

ClientNext == AcquireSlot \/ RequestEnds

ClientSpec == ClientInit /\ [][ClientNext]_vars

\* The event loop runs a coroutine that can go on, and a request that has
\* been sent ends (in a response, a timeout or an exception).
FairClientSpec == ClientSpec /\ WF_vars(ClientNext)

(***************************************************************************)
(* The batch orchestrator: process_patents_async, process_entities_async,  *)
(* generate_all_async, and the life of the processes of one session.       *)
(***************************************************************************)
Store == [data |-> data, files |-> files]

Alive == pc \in {"p_loop", "p_gather", "p_persist", "e_loop", "e_call", "e_mark"}

\* the permutations of a set: the orders in which list(set(...)) can list it
Perms(S) == {q \in [1..Cardinality(S) -> S] : Range(q) = S}

\* a partition that puts all the items into one chunk
ChunksWhole(items, batch_size) == IF items = <<>> THEN <<>> ELSE <<items>>

\* for i in range(0, len(items), batch_size): items[i:i + batch_size]
RECURSIVE Chunks(_, _)
Chunks(items, batch_size) ==
    IF items = <<>> THEN <<>>
    ELSE <<Slice(items, 0, batch_size)>> \o
         Chunks(Slice(items, batch_size, Len(items)), batch_size)

\* process_patents_async, lines 640-653: the tasks of one chunk
ChunkTasks(batch) ==
    (IF config.enable_green_classification THEN <<NewCall("green", batch)>> ELSE <<>>)
        \o (IF config.enable_tech_classification THEN <<NewCall("tech", batch)>> ELSE <<>>)

\* ... and of all the chunks of a fetch, in order
RECURSIVE BuildTasks(_)
BuildTasks(chunks) ==
    IF chunks = <<>> THEN <<>>
    ELSE ChunkTasks(Head(chunks)) \o BuildTasks(Tail(chunks))

\* 'if result and not isinstance(result, Exception)' / 'if result'
Truthy(result) == result.tag = "list" /\ result.n > 0

KindOf(task_type) ==
    CASE task_type = "green" -> "green_classifications"
      [] task_type = "tech" -> "tech_classifications"
      [] task_type = "location" -> "entity_locations"

\* a saving loop that ends at the first task without a result
NextSavedStopsAtFailure(i) ==
    IF i > Len(calls) THEN i
    ELSE IF Truthy(calls[i].result) THEN i
    ELSE Len(calls) + 1

\* the next task from position i on whose result is saved, or Len(calls) + 1
RECURSIVE NextSaved(_)
NextSaved(i) ==
    IF i > Len(calls) THEN i
    ELSE IF Truthy(calls[i].result) THEN i
    ELSE NextSaved(i + 1)

\* all_patent_ids of line 670: the ids of every task, in task order
RECURSIVE AllIds(_)
AllIds(tasks) ==
    IF tasks = <<>> THEN <<>> ELSE Head(tasks).ids \o AllIds(Tail(tasks))

\* the limit of the patent fetch (line 632)
PatentLimit == config.batch_size * config.max_concurrent_requests

\* the limit of the entity fetch (line 683)
EntityLimit == EntityBatchSize * EntityFetchFactor

\* the memory of a process that has not loaded anything
ResetMemory ==
    /\ data' = LoadAll(NoFiles)
    /\ should_stop' = FALSE
    /\ stats' = ZeroStats
    /\ semaphore' = config.max_concurrent_requests
    /\ calls' = <<>>
    /\ patents' = <<>>
    /\ entities' = <<>>
    /\ idx' = 0

\* The top of 'while not self.should_stop' of process_patents_async (lines
\* 630-656): leave the loop, or fetch, build the tasks and start them all.
\* Leaving the loop returns to generate_all_async, which enters
\* process_entities_async.
PatentsLoop ==
    /\ pc = "p_loop"
    /\ LET fetched == GetUnprocessedPatents(data, PatentLimit)
       IN  IF should_stop \/ fetched = <<>>
           THEN /\ pc' = "e_loop"
                /\ patents' = <<>>
                /\ calls' = <<>>
                /\ idx' = 0
                /\ ghost' = [ghost EXCEPT !.exhausted = ~should_stop]
           ELSE /\ pc' = "p_gather"
                /\ patents' = fetched
                /\ calls' = BuildTasks(Chunks(fetched, config.batch_size))
                /\ idx' = 1
                /\ ghost' = ghost
    /\ UNCHANGED <<config, sessions, session_id, output_dir, now, data, files, should_stop, stats, semaphore,
                   entities, nproc, world>>

\* The store operation the patent loop performs next once gather has
\* returned (lines 659-671): append_data for the next task with a result, or
\* mark_processed_patents after the last one.
PatentsAtStore == (pc = "p_gather" /\ AllDone) \/ pc = "p_persist"

PatentsAtMark == NextSaved(idx) > Len(calls)

\* the collection that operation saves
PatentStoreKind ==
    IF PatentsAtMark THEN "progress" ELSE KindOf(calls[NextSaved(idx)].task_type)

PatentStoreOps(ends) ==
    LET j == NextSaved(idx)
    IN  IF j <= Len(calls)
        THEN {AppendData(Store, KindOf(calls[j].task_type), Records(calls[j]), ends)}
        ELSE {MarkProcessedPatents(Store, q, ends) : q \in Perms(Range(AllIds(calls)))}

\* One store operation of the persisting step of the patent loop; after
\* mark_processed_patents the loop sleeps and goes back to its top.
PersistPatents ==
    /\ PatentsAtStore
    /\ \E ends \in SaveSteps \cup {"ok"} :
        /\ ends \in SaveEndsIn(world, files[PatentStoreKind])
        /\ world' = AfterSave(world, ends)
        /\ \E s \in PatentStoreOps(ends) :
            /\ data' = s.data
            /\ files' = s.files
            /\ ghost' = GhostFiles(ghost, s.files)
    /\ pc' = IF PatentsAtMark THEN "p_loop" ELSE "p_persist"
    /\ idx' = IF PatentsAtMark THEN 0 ELSE NextSaved(idx) + 1
    /\ UNCHANGED <<config, sessions, session_id, output_dir, now, should_stop, stats, semaphore, calls, patents, entities,
                   nproc>>

\* a top of the entity loop that does not test should_stop
EntitiesLoopIgnoresStop ==
    /\ pc = "e_loop"
    /\ LET fetched == GetUnprocessedEntities(data, EntityLimit)
       IN  IF ~config.enable_location_extraction \/ fetched = <<>>
           THEN /\ pc' = "done"
                /\ entities' = <<>>
                /\ calls' = <<>>
                /\ ghost' = [ghost EXCEPT !.completed =
                                ghost.exhausted /\ (~config.enable_location_extraction
                                                    \/ ~should_stop)]
           ELSE /\ pc' = "e_call"
                /\ entities' = fetched
                /\ calls' = <<NewCall("location", Slice(fetched, 0, EntityBatchSize))>>
                /\ ghost' = ghost
    /\ idx' = 0
    /\ UNCHANGED <<config, sessions, session_id, output_dir, now, data, files, should_stop, stats, semaphore,
                   patents, nproc, world>>

\* process_entities_async, lines 677-695: return when location extraction
\* is disabled; else the top of its loop: leave, or fetch and start the call
\* of the first chunk.  Returning ends generate_all_async.
EntitiesLoop ==
    /\ pc = "e_loop"
    /\ LET fetched == GetUnprocessedEntities(data, EntityLimit)
       IN  IF ~config.enable_location_extraction \/ should_stop \/ fetched = <<>>
           THEN /\ pc' = "done"
                /\ entities' = <<>>
                /\ calls' = <<>>
                /\ ghost' = [ghost EXCEPT !.completed =
                                ghost.exhausted /\ (~config.enable_location_extraction
                                                    \/ ~should_stop)]
           ELSE /\ pc' = "e_call"
                /\ entities' = fetched
                /\ calls' = <<NewCall("location", Slice(fetched, 0, EntityBatchSize))>>
                /\ ghost' = ghost
    /\ idx' = 0
    /\ UNCHANGED <<config, sessions, session_id, output_dir, now, data, files, should_stop, stats, semaphore,
                   patents, nproc, world>>

\* The call of an entity chunk raised: nothing catches it, generate_all_async
\* and main end with the exception.
EntitiesRaise ==
    /\ pc = "e_call" /\ AllDone
    /\ calls[1].result.tag = "raised"
    /\ pc' = "failed"
    /\ UNCHANGED <<config, sessions, session_id, output_dir, now, data, files, should_stop, stats, semaphore,
                   calls, patents, entities, idx, nproc, world, ghost>>

\* The store operation the entity loop performs next for its chunk (lines
\* 696-700): append_data when the call gave a result, then
\* mark_processed_entities.
EntitiesAtAppend == pc = "e_call" /\ AllDone /\ Truthy(calls[1].result)

EntitiesAtMark ==
    \/ pc = "e_mark"
    \/ pc = "e_call" /\ AllDone /\ ~Truthy(calls[1].result)
                     /\ calls[1].result.tag # "raised"

EntityStoreKind == IF EntitiesAtAppend THEN "entity_locations" ELSE "progress"

EntityStoreOp(ends) ==
    IF EntitiesAtAppend
    THEN AppendData(Store, "entity_locations", Records(calls[1]), ends)
    ELSE MarkProcessedEntities(Store, calls[1].ids, ends)

\* One store operation of the entity loop; after mark_processed_entities it
\* sleeps and starts the call of the next chunk, or goes back to the top of
\* its loop.
PersistEntities ==
    /\ EntitiesAtAppend \/ EntitiesAtMark
    /\ \E ends \in SaveSteps \cup {"ok"} :
        /\ ends \in SaveEndsIn(world, files[EntityStoreKind])
        /\ world' = AfterSave(world, ends)
        /\ LET s == EntityStoreOp(ends)
           IN  /\ data' = s.data
               /\ files' = s.files
                  /\ ghost' = GhostFiles(ghost, s.files)
    /\ IF EntitiesAtAppend
       THEN pc' = "e_mark" /\ UNCHANGED <<calls, idx>>
       ELSE LET i == idx + EntityBatchSize
            IN  IF i < Len(entities)
                THEN /\ pc' = "e_call"
                     /\ idx' = i
                     /\ calls' = <<NewCall("location",
                                           Slice(entities, i, i + EntityBatchSize))>>
                ELSE /\ pc' = "e_loop"
                     /\ idx' = 0
                     /\ calls' = calls
    /\ UNCHANGED <<config, sessions, session_id, output_dir, now, should_stop, stats, semaphore, patents, entities, nproc>>

\* a signal_handler that switches the flag: a second signal clears it
SignalToggles ==
    /\ Alive
    /\ should_stop' = ~should_stop
    /\ UNCHANGED <<config, sessions, session_id, output_dir, now, data, files, stats, semaphore, calls, patents,
                   entities, idx, pc, nproc, world, ghost>>

\* signal_handler: SIGINT or SIGTERM arrives
Signal ==
    /\ Alive
    /\ ~should_stop
    /\ should_stop' = TRUE
    /\ UNCHANGED <<config, sessions, session_id, output_dir, now, data, files, stats, semaphore, calls, patents,
                   entities, idx, pc, nproc, world, ghost>>

\* The process is killed (or the machine stops) outside a save.
Crash ==
    /\ Alive
    /\ pc' = "dead"
    /\ ResetMemory
    /\ UNCHANGED <<config, sessions, session_id, output_dir, now, files, nproc, world, ghost>>

\* The process is killed inside _save_json: the save stops at one of its
\* steps.
CrashInSave ==
    /\ PatentsAtStore \/ EntitiesAtAppend \/ EntitiesAtMark
    /\ \E ends \in SaveSteps :
        /\ ends \in SaveEndsIn(world, files[IF PatentsAtStore THEN PatentStoreKind
                                            ELSE EntityStoreKind])
        /\ world' = AfterSave(world, ends)
        /\ \E s \in (IF PatentsAtStore THEN PatentStoreOps(ends)
                     ELSE {EntityStoreOp(ends)}) :
            /\ files' = s.files
            /\ ghost' = GhostFiles(ghost, s.files)
    /\ pc' = "dead"
    /\ ResetMemory
    /\ UNCHANGED <<config, sessions, session_id, output_dir, now, nproc>>

\* A new process is started for the same session id, LLM_ENHANCE_CONFIG and
\* catalog: AsyncLLMGenerator.__init__ and the start of generate_all_async.
Restart ==
    /\ pc \in {"done", "failed", "dead"}
    /\ nproc <= MaxRestarts
    /\ nproc' = nproc + 1
    /\ data' = LoadAll(files)
    /\ should_stop' = FALSE
    /\ stats' = ZeroStats
    /\ semaphore' = config.max_concurrent_requests
    /\ calls' = <<>>
    /\ patents' = <<>>
    /\ entities' = <<>>
    /\ idx' = 0
    /\ pc' = "p_loop"
    /\ ghost' = [ghost EXCEPT
                    !.exhausted = FALSE,
                    !.completed = FALSE,
                    !.resumed =
                        IF pc = "done" /\ ghost.completed
                        THEN [valid |-> TRUE, data |-> data,
                              synced |-> Persisted(data, files)]
                        ELSE NoGhost.resumed]
    /\ UNCHANGED <<config, sessions, session_id, output_dir, now, files, world>>

\* the state after AsyncLLMGenerator.__init__ and the first lines of
\* generate_all_async in the first process of a new session
Start(w, maxRetr) ==
    /\ config \in Configs(MaxBatchSize, MaxConcurrent, maxRetr)
    /\ files = NoFiles
    /\ data = LoadAll(files)
    /\ should_stop = FALSE
    /\ stats = ZeroStats
    /\ semaphore = config.max_concurrent_requests
    /\ calls = <<>>
    /\ patents = <<>>
    /\ entities = <<>>
    /\ idx = 0
    /\ pc = "p_loop"
    /\ nproc = 1
    /\ world = w
    /\ ghost = NoGhost
    /\ OneSession

(***************************************************************************)
(* Spec: one run of the orchestrator; requests succeed with any text or    *)
(* time out, signals arrive at any time, saves succeed.                    *)
(***************************************************************************)
Init == Start([api |-> "timeouts", faults |-> 0], MaxRetries)

\* the steps of the program
Program ==
    \/ PatentsLoop
    \/ AcquireSlot
    \/ RequestEnds
    \/ PersistPatents
    \/ EntitiesLoop
    \/ EntitiesRaise
    \/ PersistEntities

Next ==
    \/ PatentsLoop
    \/ AcquireSlot
    \/ RequestEnds
    \/ PersistPatents
    \/ EntitiesLoop
    \/ EntitiesRaise
    \/ PersistEntities
    \/ Signal

Spec == Init /\ [][Next]_vars

\* The event loop runs a coroutine that can go on, and a request that has
\* been sent ends; signals may or may not arrive.
FairSpec == Spec /\ WF_vars(Program)

(***************************************************************************)
(* SessionSpec: the processes of one session, one after the other; the API *)
(* answers (no request is retried, and max_retries is 0), saves can fail,  *)
(* a process can be killed at any point and a new one started with the     *)
(* same session id.                                                        *)
(***************************************************************************)
SessionInit == Start([api |-> "answers", faults |-> MaxFaults], 0)

SessionNext ==
    \/ PatentsLoop
    \/ AcquireSlot
    \/ RequestEnds
    \/ PersistPatents
    \/ EntitiesLoop
    \/ PersistEntities
    \/ Crash
    \/ CrashInSave
    \/ Restart

SessionSpec == SessionInit /\ [][SessionNext]_vars

(***************************************************************************)
(* StoreSpec: a JSONStorage on its own.  A process calls append_data and   *)
(* mark_processed_* in any order; saves can fail; the process can be       *)
(* killed, inside a save or between two calls, and a new one started with  *)
(* the same session id.                                                    *)
(***************************************************************************)
\* a record appended to the collection of a result kind
StoreItem(kind) == [task_type |-> kind, ids |-> <<1>>]

\* the number of items the collections d hold
StoreSize(d) ==
    Len(d["green_classifications"]) + Len(d["tech_classifications"])
        + Len(d["entity_locations"])
        + Len(d["progress"].processed_patents)
        + Len(d["progress"].processed_entities)

\* the behaviour has room for a call that adds an item to `kind`
StoreRoom(kind) == StoreSize(data) < MaxStoreItems

\* the calls that save the collection of `kind`, each with its save ending
\* as `ends`
StoreOps(kind, ends) ==
    IF kind = "progress"
    THEN {MarkProcessedPatents(Store, <<id>>, ends) : id \in 1..NPatents}
            \cup {MarkProcessedEntities(Store, <<n>>, ends) : n \in 1..MaxStoreEntities}
    ELSE {AppendData(Store, kind, <<StoreItem(kind)>>, ends)}

StoreInit ==
    /\ config \in {cf \in Configs(1, 1, 0) :
                      /\ cf.enable_green_classification
                      /\ cf.enable_tech_classification
                      /\ cf.enable_location_extraction}
    /\ files = NoFiles
    /\ data = LoadAll(files)
    /\ should_stop = FALSE
    /\ stats = ZeroStats
    /\ semaphore = config.max_concurrent_requests
    /\ calls = <<>>
    /\ patents = <<>>
    /\ entities = <<>>
    /\ idx = 0
    /\ pc = "store"
    /\ nproc = 1
    /\ world = [api |-> "answers", faults |-> MaxStoreFaults]
    /\ ghost = NoGhost
    /\ OneSession

\* a call of a store operation on `kind` returns
StoreCall(kind) ==
    /\ StoreRoom(kind)
    /\ \E ends \in SaveEndsIn(world, files[kind]) :
        /\ world' = AfterSave(world, ends)
        /\ \E s \in StoreOps(kind, ends) :
            /\ data' = s.data
            /\ files' = s.files
            /\ ghost' = GhostFiles(ghost, s.files)
    /\ UNCHANGED <<config, sessions, session_id, output_dir, now, should_stop, stats, semaphore, calls, patents,
                   entities, idx, pc, nproc>>

\* append_data returns
StoreAppend ==
    /\ pc = "store"
    /\ \E kind \in ResultKinds : StoreCall(kind)

\* mark_processed_patents or mark_processed_entities returns
StoreMark ==
    /\ pc = "store"
    /\ StoreCall("progress")

\* the process is killed between two calls
StoreKill ==
    /\ pc = "store"
    /\ pc' = "dead"
    /\ ResetMemory
    /\ UNCHANGED <<config, sessions, session_id, output_dir, now, files, nproc, world, ghost>>

\* the process is killed inside the _save_json of a call
StoreKillInSave ==
    /\ pc = "store"
    /\ \E kind \in Kinds :
        /\ StoreRoom(kind)
        /\ \E ends \in SaveEndsIn(world, files[kind]) \cap SaveSteps :
            /\ world' = AfterSave(world, ends)
            /\ \E s \in StoreOps(kind, ends) :
                /\ files' = s.files
                /\ ghost' = GhostFiles(ghost, s.files)
    /\ pc' = "dead"
    /\ ResetMemory
    /\ UNCHANGED <<config, sessions, session_id, output_dir, now, nproc>>

\* while no process runs, a file of the session is damaged (truncated or
\* overwritten by something else than the store)
StoreDamage ==
    /\ pc = "dead"
    /\ world.faults > 0
    /\ \E kind \in Kinds :
        /\ files[kind].st = "valid"
        /\ files' = [files EXCEPT ![kind] = Corrupt(@)]
    /\ world' = [world EXCEPT !.faults = @ - 1]
    /\ UNCHANGED <<config, sessions, session_id, output_dir, now, data, should_stop, stats, semaphore, calls, patents,
                   entities, idx, pc, nproc, ghost>>

\* JSONStorage.__init__ of a new process with the same session id
StoreReload ==
    /\ pc = "dead"
    /\ nproc <= MaxRestarts
    /\ nproc' = nproc + 1
    /\ data' = LoadAll(files)
    /\ pc' = "store"
    /\ UNCHANGED <<config, sessions, session_id, output_dir, now, files, should_stop, stats, semaphore, calls,
                   patents, entities, idx, world, ghost>>

StoreNext ==
    \/ StoreAppend
    \/ StoreMark
    \/ StoreKill
    \/ StoreKillInSave
    \/ StoreDamage
    \/ StoreReload

StoreSpec == StoreInit /\ [][StoreNext]_vars

(***************************************************************************)
(* Properties of the client (ClientSpec, FairClientSpec).                  *)
(***************************************************************************)
\* the calls that are awaiting the response of the external API
InFlight == {c \in 1..Len(calls) : calls[c].st = "inflight"}

\* the sum of retry_count over the calls from position i on
RECURSIVE SumRetries(_)
SumRetries(i) ==
    IF i > Len(calls) THEN 0 ELSE calls[i].retry_count + SumRetries(i + 1)

\* every call has returned the text of a response, after attempts that all
\* ended in an HTTP error status
ErrorsThenSuccess ==
    /\ AllDone
    /\ \A c \in 1..Len(calls) :
        /\ calls[c].seen.failures \in {"none", "status"}
        /\ calls[c].response.tag = "text"

\* the counters after calls whose k first attempts got an error status and
\* whose attempt k + 1 succeeded (k is the call's retry_count)
CountersOfErrorsThenSuccess ==
    /\ stats.total_requests = SumRetries(1) + Len(calls)
    /\ stats.successful_requests = Len(calls)
    /\ stats.retries = SumRetries(1)
    /\ stats.failed_requests = 0
    /\ \A c \in 1..Len(calls) : calls[c].retry_count <= config.max_retries

\* C6: in every reachable state at most max_concurrent_requests calls are
\* awaiting a response of the external API, however many calls were
\* submitted and however many of them are retrying.
C6_BoundedConcurrency == Cardinality(InFlight) <= config.max_concurrent_requests

\* as many calls as the maximum allows await a response while another call
\* waits for a slot
C6_Witness ==
    /\ Cardinality(InFlight) = config.max_concurrent_requests
    /\ \E c \in 1..Len(calls) : calls[c].st = "waiting"
    /\ semaphore = 0

\* call c is one whose every attempt fails at transport level (a timeout or
\* a transport exception)
AlwaysFailsTransport(c) ==
    [](/\ c \in 1..Len(calls)
       /\ calls[c].seen.failures \in {"none", "transport"}
       /\ calls[c].response.tag # "text")

\* call c has returned None after exactly max_retries + 1 attempts
ReturnedNoneAfterAllAttempts(c) ==
    /\ c \in 1..Len(calls)
    /\ calls[c].st = "done"
    /\ calls[c].response.tag = "None"
    /\ calls[c].retry_count + 1 = config.max_retries + 1

\* C8: for every call, alone or concurrent with others, whose every attempt
\* fails at transport level, exactly max_retries + 1 attempts are made and
\* then None is returned to the caller.
C8_RetryBound ==
    \A c \in 1..MaxCalls :
        AlwaysFailsTransport(c) => <>ReturnedNoneAfterAllAttempts(c)

C10_NeverRaises ==
    \A c \in 1..Len(calls) :
        calls[c].st = "done" => calls[c].response.tag \in {"text", "None"}

\* a call has returned None after an attempt that ended in something else
\* than an HTTP status (a timeout, an exception, an undecodable envelope)
C10_Witness ==
    \E c \in 1..Len(calls) :
        /\ calls[c].st = "done"
        /\ calls[c].response.tag = "None"
        /\ calls[c].seen.failures \in {"transport", "envelope", "mixed"}

(***************************************************************************)
(* Properties of the orchestrator (Spec, FairSpec).                        *)
(***************************************************************************)
\* C2: after the persisting step of a fetch cycle every key of the fetched
\* set is in the ledger exactly once, whatever the results of the calls and
\* whatever task types are enabled.
C2_FetchedMarkedOnce ==
    [][/\ (PatentsAtStore /\ PatentsAtMark /\ pc' = "p_loop") =>
            \A i \in 1..Len(patents) :
                CountOf(data'["progress"].processed_patents, patents[i]) = 1
       /\ (EntitiesAtMark /\ pc' \in {"e_call", "e_loop"}) =>
            \A i \in 1..Len(calls[1].ids) :
                CountOf(data'["progress"].processed_entities, calls[1].ids[i]) = 1
      ]_vars

\* C7: every run of the orchestrator eventually ends (generate_all_async
\* returns, or ends with an exception), for every configuration.
C7_Terminates == <>(pc \in {"done", "failed"})

(***************************************************************************)
(* Properties of the store (StoreSpec).                                    *)
(***************************************************************************)
\* C4: when the process dies, inside a save or outside, every file that
\* was at its final path before is still there afterwards, as a complete
\* snapshot.
C4_CrashKeepsSnapshot ==
    [][(pc = "store" /\ pc' = "dead") =>
            \A k \in Kinds : files[k].st = "valid" => files'[k].st = "valid"
      ]_vars

\* C5: when a call of append_data has returned, the file of the result kind
\* is in its state of before the call or holds the collection with the
\* appended items.
C5_AppendPreOrPost ==
    [][\A k \in ResultKinds :
            (pc = "store" /\ pc' = "store" /\ data'[k] # data[k]) =>
                \/ files'[k] = files[k]
                \/ files'[k] = [st |-> "valid", content |-> data'[k]]
      ]_vars

(***************************************************************************)
(* Properties of a session (SessionSpec).                                  *)
(***************************************************************************)
\* C1: no key that has been in the persisted ledger is in the chunk of a
\* patent call whose prompt has been submitted to the external API, in the
\* same process or in a later process of the session.
C1_NoResubmission ==
    \A c \in 1..Len(calls) :
        (calls[c].st = "inflight" /\ calls[c].task_type \in {"green", "tech"})
            => Range(calls[c].ids) \cap ghost.ledger = {}

\* what a process started after a run to completion leaves unchanged: no API
\* call, the same number of records of every result kind, the same ledger,
\* in memory and in the files
NothingRedone ==
    /\ stats.total_requests = 0
    /\ \A c \in 1..Len(calls) : calls[c].st # "inflight"
    /\ \A k \in ResultKinds :
        /\ Len(data[k]) = Len(ghost.resumed.data[k])
        /\ Len(LoadJson(files, k)) = Len(ghost.resumed.data[k])
    /\ data["progress"] = ghost.resumed.data["progress"]

FetchStep ==
    \/ pc = "p_loop" /\ pc' = "p_gather"
    \/ pc = "e_loop" /\ pc' = "e_call"

\* the records of call c are in the collection of its result kind
Appended(c) ==
    CountOf(data[KindOf(calls[c].task_type)],
            [task_type |-> calls[c].task_type, ids |-> calls[c].ids])
        = calls[c].result.n

\* the patent cycle has persisted: gather has returned, the records of
\* every call with a result are appended, every fetched key is marked
CyclePersisted ==
    /\ pc = "p_loop"
    /\ AllDone
    /\ \A c \in 1..Len(calls) : Truthy(calls[c].result) => Appended(c)
    /\ \A i \in 1..Len(patents) : IsPatentProcessed(data, patents[i])

\* the stop flag is set while calls of the patent cycle are in flight
StoppedInFlight == should_stop /\ pc = "p_gather" /\ InFlight # {}

\* C11: once the stop flag is set no FETCHING step happens, and when it is
\* set while calls of the cycle are in flight, those calls complete, their
\* parsed results are appended and the cycle's keys are marked.
C11_StopFinishesCycle ==
    /\ [][should_stop => ~FetchStep]_vars
    /\ StoppedInFlight ~> CyclePersisted

\* the part of C11 that needs no progress: no FETCHING step after the flag
\* is set, and a cycle that ends with the flag set has persisted
StoppedCycleSafety ==
    [][/\ should_stop => ~FetchStep
       /\ (should_stop /\ PatentsAtStore /\ calls # <<>> /\ pc' = "p_loop")
            => CyclePersisted'
      ]_vars

\* C12: every call that is suspended waiting for a slot of the semaphore
\* eventually obtains one, whatever happens to the calls in flight.
C12_WaitingGetsSlot ==
    \A c \in 1..MaxCalls :
        (c \in 1..Len(calls) /\ calls[c].st = "waiting")
            ~> (c \in 1..Len(calls) /\ calls[c].st # "waiting")

\* call c of the cycle has failed: it raised, or returned None
Failed(c) == calls[c].result.tag \in {"raised", "None"}

C14_MalformedNotRetried ==
    \A c \in 1..Len(calls) :
        calls[c].seen.failures = "envelope" =>
            /\ calls[c].retry_count = 0
            /\ calls[c].st = "done"

(***************************************************************************)
(* Properties of the store: failed saves, loading, the ledger (StoreSpec). *)
(***************************************************************************)
IsPrefix(s, t) == Len(s) <= Len(t) /\ SubSeq(t, 1, Len(s)) = s

\* collection e holds everything collection d holds, in the same order
Extends(kind, d, e) ==
    IF kind = "progress"
    THEN /\ IsPrefix(d.processed_patents, e.processed_patents)
         /\ IsPrefix(d.processed_entities, e.processed_entities)
    ELSE IsPrefix(d, e)

\* a step in which a call of append_data or mark_processed_* returns
StoreCallStep == pc = "store" /\ pc' = "store"

\* ... whose save failed (and was logged)
FailedPersist == StoreCallStep /\ world'.faults < world.faults

\* C15: a call whose persist fails returns, with its items added to the
\* in-memory collection and nothing removed from it; a call whose persist
\* succeeds leaves the file equal to the whole in-memory collection, the
\* items of earlier failed persists included.
C15_NextPersistHeals ==
    [][/\ StoreCallStep => \A k \in Kinds : Extends(k, data[k], data'[k])
       /\ FailedPersist => \E k \in Kinds : data'[k] # data[k]
       /\ (StoreCallStep /\ ~FailedPersist) =>
            \A k \in Kinds :
                data'[k] # data[k] => files'[k] = [st |-> "valid", content |-> data'[k]]
      ]_vars

\* three appends to one kind in one process, the first two with a failed
\* persist: the file holds the three items
C15_Witness ==
    /\ pc = "store"
    /\ nproc = 1
    /\ world.faults = MaxStoreFaults - 2
    /\ \E k \in ResultKinds :
        /\ Len(data[k]) = 3
        /\ files[k] = [st |-> "valid", content |-> data[k]]
        /\ \A j \in Kinds \ {k} : data[j] = EmptyDefault(j)

\* C16: loading never fails: a new process gets, for every kind, the content
\* of the file when it exists and parses, and otherwise (no file, or a file
\* that does not parse) the empty list for a result kind and the ledger with
\* empty processed_patents and processed_entities for progress.
C16_LoadNeverFails ==
    [][(pc = "dead" /\ pc' # "dead") =>
            /\ pc' = "store"
            /\ \A k \in ResultKinds :
                data'[k] = IF files[k].st = "valid" THEN files[k].content ELSE <<>>
            /\ data'["progress"] =
                    IF files["progress"].st = "valid" THEN files["progress"].content
                    ELSE [processed_patents |-> <<>>, processed_entities |-> <<>>]
      ]_vars

\* a process has just loaded a session with a file that parses, a file
\* that does not, and a kind with no file
C16_Witness ==
    /\ pc = "store"
    /\ nproc > 1
    /\ data = LoadAll(files)
    /\ \E k \in Kinds :
        /\ files[k].st = "corrupt"
        /\ files[k].content # EmptyDefault(k)
        /\ data[k] = EmptyDefault(k)
    /\ \E k \in Kinds :
        /\ files[k].st = "valid"
        /\ data[k] = files[k].content
        /\ data[k] # EmptyDefault(k)
    /\ \E k \in Kinds : files[k].st = "missing"

\* the patent keys and entity names for which is_*_processed is true in d
ProcessedKeys(d) ==
    [patents  |-> {id \in 1..NPatents : IsPatentProcessed(d, id)},
     entities |-> {n \in 1..NEntities : IsEntityProcessed(d, n)}]

\* C17: a key that is_processed reports stays reported while the process
\* makes further calls, and a process that loads a session whose progress
\* file is not damaged reports every patent key that has been in the
\* persisted ledger of that session.
C17_MarksSurviveReload ==
    [][ /\ (pc = "store" /\ pc' = "store") =>
                /\ ProcessedKeys(data).patents \subseteq ProcessedKeys(data').patents
                /\ ProcessedKeys(data).entities \subseteq ProcessedKeys(data').entities
        /\ (pc = "dead" /\ pc' = "store" /\ files["progress"].st # "corrupt") =>
                ghost.ledger \subseteq ProcessedKeys(data').patents
      ]_vars

(***************************************************************************)
(* CatalogSpec: get_unprocessed_patents or get_unprocessed_entities is     *)
(* called once, with limit idx, on a ledger that holds any keys of the     *)
(* catalog in any order.                                                   *)
(***************************************************************************)
\* the lists without repetition of elements of S
Ledgers(S) == UNION {Perms(T) : T \in SUBSET S}

CatalogInit ==
    /\ config \in {cf \in Configs(1, 1, 0) :
                      /\ cf.enable_green_classification
                      /\ cf.enable_tech_classification
                      /\ cf.enable_location_extraction}
    /\ files = NoFiles
    /\ \E lp \in Ledgers(1..NPatents), le \in Ledgers(1..MaxStoreEntities) :
        data = [LoadAll(NoFiles) EXCEPT
                    !["progress"] = [processed_patents |-> lp,
                                     processed_entities |-> le]]
    /\ should_stop = FALSE
    /\ stats = ZeroStats
    /\ semaphore = config.max_concurrent_requests
    /\ calls = <<>>
    /\ patents = <<>>
    /\ entities = <<>>
    /\ idx \in 0..MaxLimit
    /\ pc = "catalog"
    /\ nproc = 1
    /\ world = [api |-> "answers", faults |-> 0]
    /\ ghost = NoGhost
    /\ OneSession

\* get_unprocessed_patents(limit = idx) returns
CatalogPatents ==
    /\ pc = "catalog"
    /\ patents' = GetUnprocessedPatents(data, idx)
    /\ pc' = "got_patents"
    /\ UNCHANGED <<config, sessions, session_id, output_dir, now, data, files, should_stop, stats, semaphore, calls,
                   entities, idx, nproc, world, ghost>>

\* get_unprocessed_entities(limit = idx) returns
CatalogEntities ==
    /\ pc = "catalog"
    /\ entities' = GetUnprocessedEntities(data, idx)
    /\ pc' = "got_entities"
    /\ UNCHANGED <<config, sessions, session_id, output_dir, now, data, files, should_stop, stats, semaphore, calls,
                   patents, idx, nproc, world, ghost>>

CatalogNext ==
    \/ CatalogPatents
    \/ CatalogEntities

CatalogSpec == CatalogInit /\ [][CatalogNext]_vars

(***************************************************************************)
(* Properties of the catalog (CatalogSpec).                                *)
(***************************************************************************)
\* the items of cat whose key is not in the list `processed`, in the order
\* of cat
NotIn(cat, processed) == SelectSeq(cat, LAMBDA x : ~Contains(processed, x))

\* the first Min(limit, n) of the n items of s
FirstUpTo(s, limit) == SubSeq(s, 1, Min(limit, Len(s)))

FirstMaxOneLimit ==
    /\ pc = "got_patents" =>
            patents = FirstUpTo(NotIn(all_patents, data["progress"].processed_patents),
                                IF idx = 0 THEN 1 ELSE idx)
    /\ pc = "got_entities" =>
            entities = FirstUpTo(NotIn(all_entities, data["progress"].processed_entities),
                                 IF idx = 0 THEN 1 ELSE idx)

(***************************************************************************)
(* ParserSpec: process_batch_async goes on after call_llm_async has        *)
(* returned None or a text, any text of at most MaxTextLen characters.     *)
(***************************************************************************)
Chars == {"[", "]", "r", "x", " ", "D"}

TextsUpTo(n) == UNION {[1..k -> Chars] : k \in 0..n}

\* what call_llm_async can have returned
Responses == {NoneResponse} \cup {[tag |-> "text", text |-> t] : t \in TextsUpTo(MaxTextLen)}

ParserInit ==
    /\ config \in {cf \in Configs(1, 1, 0) :
                      /\ cf.enable_green_classification
                      /\ cf.enable_tech_classification
                      /\ cf.enable_location_extraction}
    /\ files = NoFiles
    /\ data = LoadAll(files)
    /\ should_stop = FALSE
    /\ stats = ZeroStats
    /\ semaphore = config.max_concurrent_requests
    /\ \E r \in Responses :
        calls = <<[NewCall("green", <<1>>) EXCEPT !.st = "done", !.response = r,
                                                  !.seen.raw = r.text]>>
    /\ patents = <<1>>
    /\ entities = <<>>
    /\ idx = 0
    /\ pc = "parse"
    /\ nproc = 1
    /\ world = [api |-> "answers", faults |-> 0]
    /\ ghost = NoGhost
    /\ OneSession

\* lines 610-624 of process_batch_async
ParserParse ==
    /\ pc = "parse"
    /\ calls' = [calls EXCEPT ![1].result = ProcessBatchResult(calls[1].response)]
    /\ pc' = "parsed"
    /\ UNCHANGED <<config, sessions, session_id, output_dir, now, data, files, should_stop, stats, semaphore, patents,
                   entities, idx, nproc, world, ghost>>

ParserNext == ParserParse

ParserSpec == ParserInit /\ [][ParserNext]_vars

(***************************************************************************)
(* Properties of the parser (ParserSpec).                                  *)
(***************************************************************************)
\* the pairs <<i, j>> of the positions of the first '[' of t and of the
\* last ']' of t, when the second follows the first: one pair or none
Brackets(t) ==
    {<<i, j>> \in (1..Len(t)) \X (1..Len(t)) :
        /\ i < j
        /\ t[i] = "[" /\ \A k \in 1..(i - 1) : t[k] # "["
        /\ t[j] = "]" /\ \A k \in (j + 1)..Len(t) : t[k] # "]"}

\* the result is a failure (None or an exception) and holds no record
IsFailure(call) ==
    /\ call.result.tag \in {"None", "raised"}
    /\ Records(call) = <<>>

\* C19: what is decoded is the substring from the first '[' to the last ']'
\* of the response text, whatever stands before and after it; when that
\* substring decodes to a list the result is that list, and when there is
\* no such substring or it does not decode, the result is a failure and
\* holds no record.
C19_DecodesFirstToLastBracket ==
    pc = "parsed" =>
        LET call == calls[1]
            t == call.response.text
        IN  /\ Cardinality(Brackets(t)) <= 1
            /\ Brackets(t) = {} => IsFailure(call)
            /\ \A b \in Brackets(t) :
                LET decoded == JsonLoads(SubSeq(t, b[1], b[2]))
                IN  /\ decoded.tag = "list" =>
                            /\ call.result = [tag |-> "list", n |-> decoded.n]
                            /\ Len(Records(call)) = decoded.n
                    /\ decoded.tag # "list" => IsFailure(call)

\* a text with prose before and after an array of one record has been
\* parsed into one record
C19_Witness ==
    /\ pc = "parsed"
    /\ calls[1].response.text = <<"x", "[", "r", "]", "x">>
    /\ calls[1].result = [tag |-> "list", n |-> 1]

(***************************************************************************)
(* EngineSpec: engines (AsyncLLMGenerator) are created one after the       *)
(* other on the same output directory, each with the session id it is      *)
(* given or with None; an engine marks patents, and ends; time passes.     *)
(***************************************************************************)
\* the values of the parameter session_id: None or a string
SessionArgs ==
    {[is_none |-> TRUE, value |-> <<>>]}
        \cup {[is_none |-> FALSE, value |-> v] : v \in SessionIds}

\* Python's truth value of the parameter: neither None nor the empty string
HasId(arg) == ~arg.is_none /\ arg.value # <<>>

\* lines 165-170 of AsyncLLMGenerator.__init__
SessionIdOf(arg, t) == IF HasId(arg) THEN arg.value ELSE Strftime(t)

EngineInit ==
    /\ config \in {cf \in Configs(1, 1, 0) :
                      /\ cf.enable_green_classification
                      /\ cf.enable_tech_classification
                      /\ cf.enable_location_extraction}
    /\ files = NoFiles
    /\ data = LoadAll(files)
    /\ should_stop = FALSE
    /\ stats = ZeroStats
    /\ semaphore = config.max_concurrent_requests
    /\ calls = <<>>
    /\ patents = <<>>
    /\ entities = <<>>
    /\ idx = 0
    /\ pc = "idle"
    /\ nproc = 0
    /\ world = [api |-> "answers", faults |-> 0]
    /\ ghost = NoGhost
    /\ session_id = <<>>
    /\ output_dir = NoSessions
    /\ now = 0
    /\ sessions = <<>>

\* AsyncLLMGenerator.__init__(arg): the id is chosen and JSONStorage.__init__
\* loads the files of that id
EngineCreate(arg) ==
    /\ pc = "idle"
    /\ nproc < MaxEngines
    /\ nproc' = nproc + 1
    /\ session_id' = SessionIdOf(arg, now)
    /\ files' = output_dir[session_id']
    /\ data' = LoadAll(files')
    /\ pc' = "engine"
    /\ UNCHANGED <<config, should_stop, stats, semaphore, calls, patents,
                   entities, idx, world, ghost, output_dir, now>>

\* the engine is created with a session id or with None
EngineCreates ==
    /\ pc = "idle"
    /\ \E arg \in SessionArgs : EngineCreate(arg)
    /\ UNCHANGED sessions

\* the engine marks a patent as processed
EngineMark ==
    /\ pc = "engine"
    /\ StoreSize(data) < MaxStoreItems
    /\ \E id \in 1..NPatents :
        LET s == MarkProcessedPatents(Store, <<id>>, "ok")
        IN  /\ data' = s.data
            /\ files' = s.files
    /\ UNCHANGED <<config, sessions, session_id, output_dir, now, should_stop, stats,
                   semaphore, calls, patents, entities, idx, pc, nproc, world,
                   ghost>>

\* the process of the engine ends: its files stay in the output directory
EngineEnds ==
    /\ pc = "engine"
    /\ pc' = "idle"
    /\ output_dir' = [output_dir EXCEPT ![session_id] = files]
    /\ session_id' = <<>>
    /\ files' = NoFiles
    /\ ResetMemory
    /\ UNCHANGED <<config, sessions, now, nproc, world, ghost>>

\* the clock advances by one tick
Tick ==
    /\ now < MaxClock
    /\ now' = now + 1
    /\ UNCHANGED <<config, sessions, session_id, output_dir, data, files, should_stop,
                   stats, semaphore, calls, patents, entities, idx, pc, nproc,
                   world, ghost>>

EngineNext ==
    \/ EngineCreates
    \/ EngineMark
    \/ EngineEnds
    \/ Tick

EngineSpec == EngineInit /\ [][EngineNext]_vars

(***************************************************************************)
(* Properties of the creation of an engine (EngineSpec).                   *)
(***************************************************************************)
\* the session ids under which the output directory holds a file
SessionsOnDisk == {s \in SessionIds : \E k \in Kinds : output_dir[s][k].st # "missing"}

\* what the files fs hold of `kind`: the content of the file when there is
\* one that parses, and nothing otherwise
ContentOf(fs, kind) ==
    IF fs[kind].st = "valid" THEN fs[kind].content ELSE EmptyDefault(kind)

\* C20: an engine created with a session id has that id and holds in memory
\* the ledger and the three result lists of the files of that id; an engine
\* created without one has an id made from the time of its creation, which
\* is the id of no session of the output directory.
C20_CreateOrResume ==
    [][\A arg \in SessionArgs :
            EngineCreate(arg) =>
                /\ HasId(arg) =>
                        /\ session_id' = arg.value
                        /\ \A k \in Kinds : data'[k] = ContentOf(output_dir[arg.value], k)
                /\ ~HasId(arg) =>
                        /\ session_id' = <<ToString(now \div TicksPerSecond)>>
                        /\ session_id' \notin SessionsOnDisk
      ]_vars

\* what holds of the code: the same, without the id of an engine created
\* with no id being the id of no other session
CreateOrResumeSameSecond ==
    [][\A arg \in SessionArgs :
            EngineCreate(arg) =>
                /\ HasId(arg) =>
                        /\ session_id' = arg.value
                        /\ \A k \in Kinds : data'[k] = ContentOf(output_dir[arg.value], k)
                /\ ~HasId(arg) =>
                        /\ session_id' = <<ToString(now \div TicksPerSecond)>>
                        /\ \A k \in Kinds : data'[k] = ContentOf(output_dir[session_id'], k)
      ]_vars

(***************************************************************************)
(* list_available_sessions and main.                                       *)
(***************************************************************************)
\* the path of the progress file of a session: f'{session_id}_progress.json'
ProgressFileName(id) == id \o <<ProgressSuffix>>

\* os.listdir(output_dir), the names that end with '_progress.json'
ProgressFileNames(dir) ==
    {ProgressFileName(s) : s \in {t \in DOMAIN dir : dir[t]["progress"].st # "missing"}}

\* the file of the directory with the name f
FileNamed(dir, f) == dir[CHOOSE s \in DOMAIN dir : ProgressFileName(s) = f]["progress"]

\* filename.replace('_progress.json', ''): every occurrence is removed
Replace(f, part) == SelectSeq(f, LAMBDA t : t # part)

\* the entries list_available_sessions appends: one for every progress file
\* that json.load parses (the bare 'except' passes over the others)
SessionEntries(dir) ==
    {[file |-> f,
      session_id |-> Replace(f, ProgressSuffix),
      processed_patents |-> Len(FileNamed(dir, f).content.processed_patents),
      processed_entities |-> Len(FileNamed(dir, f).content.processed_entities)] :
        f \in {g \in ProgressFileNames(dir) : FileNamed(dir, g).st = "valid"}}

\* the place of a part of a session id in the order of Python's strings:
\* digits come before '_', and '_' before letters
PartRank(part) ==
    CASE part = "alpha" -> MaxClock + 2
      [] part = ProgressSuffix -> MaxClock + 1
      [] OTHER -> CHOOSE n \in 0..MaxClock : ToString(n) = part

\* Python's a <= b on strings
RECURSIVE StrLeq(_, _)
StrLeq(a, b) ==
    IF a = <<>> THEN TRUE
    ELSE IF b = <<>> THEN FALSE
    ELSE IF Head(a) = Head(b) THEN StrLeq(Tail(a), Tail(b))
    ELSE PartRank(Head(a)) < PartRank(Head(b))

\* sorted(sessions, key=session_id, reverse=True) for every order in which
\* os.listdir can give the files; the entries keep what the dictionaries of
\* the code hold, but for last_update, a time the model does not keep
ListAvailableSessions(dir) ==
    LET es == SessionEntries(dir)
        entry(e) == [session_id |-> e.session_id,
                     processed_patents |-> e.processed_patents,
                     processed_entities |-> e.processed_entities]
    IN  {[i \in 1..Len(q) |-> entry(q[i])] :
            q \in {r \in Perms(es) :
                      \A i \in 1..(Len(r) - 1) : StrLeq(r[i + 1].session_id, r[i].session_id)}}

\* no session id: the value None of the variable session_id of main
None == [is_none |-> TRUE, value |-> <<>>]

\* sys.argv[1:]: nothing, '--new', '--list', or '--session' followed or not
\* by an id
Argvs ==
    {[opt |-> o, arg |-> None] : o \in {"", "--new", "--list"}}
        \cup {[opt |-> "--session", arg |-> a] : a \in SessionArgs}

\* main, lines 803-813: the session id the command line gives
ArgvSessionId(argv) == IF argv.opt = "--session" THEN argv.arg ELSE None

\* main, line 835: 'session_id is None and "--new" not in sys.argv'
AutoResume(argv) == ArgvSessionId(argv).is_none /\ argv.opt # "--new"

\* main, lines 836-838: the id of the first listed session, if any
LatestOf(listing) ==
    IF listing # <<>> THEN [is_none |-> FALSE, value |-> listing[1].session_id]
    ELSE None

\* the progress files earlier runs (and damage) can have left for a session
ProgressFiles ==
    LET ledgers == {[processed_patents |-> SubSeq(all_patents, 1, n),
                     processed_entities |-> SubSeq(all_entities, 1, m)] :
                        n \in 0..2, m \in 0..1}
    IN  {Missing("progress")}
            \cup {[st |-> "valid", content |-> l] : l \in ledgers}
            \cup {Corrupt([st |-> "valid", content |-> EmptyDefault("progress")])}

\* the output directories: no engine makes a session with an empty id
Directories ==
    {d \in [SessionIds -> {[NoFiles EXCEPT !["progress"] = f] : f \in ProgressFiles}] :
        d[<<>>] = NoFiles}

(***************************************************************************)
(* MainSpec: main() is started once.                                       *)
(***************************************************************************)
MainInit ==
    /\ config \in {cf \in Configs(1, 1, 0) :
                      /\ cf.enable_green_classification
                      /\ cf.enable_tech_classification
                      /\ cf.enable_location_extraction}
    /\ files = NoFiles
    /\ data = LoadAll(files)
    /\ should_stop = FALSE
    /\ stats = ZeroStats
    /\ semaphore = config.max_concurrent_requests
    /\ calls = <<>>
    /\ patents = <<>>
    /\ entities = <<>>
    /\ idx = 0
    /\ pc = "idle"
    /\ nproc = 0
    /\ world = [api |-> "answers", faults |-> 0]
    /\ ghost = NoGhost
    /\ session_id = <<>>
    /\ output_dir \in Directories
    /\ now \in 0..MaxClock
    /\ sessions = <<>>

\* main with '--list' (lines 816-827): the sessions are listed and main
\* returns
MainLists ==
    /\ pc = "idle"
    /\ sessions' \in ListAvailableSessions(output_dir)
    /\ pc' = "listed"
    /\ UNCHANGED <<config, session_id, output_dir, now, data, files,
                   should_stop, stats, semaphore, calls, patents, entities,
                   idx, nproc, world, ghost>>

\* main with the arguments argv other than '--list' (lines 803-846): the
\* session is selected and the engine is created
MainRun(argv) ==
    /\ pc = "idle"
    /\ argv.opt # "--list"
    /\ IF AutoResume(argv)
       THEN /\ sessions' \in ListAvailableSessions(output_dir)
            /\ EngineCreate(LatestOf(sessions'))
       ELSE /\ sessions' = sessions
            /\ EngineCreate(ArgvSessionId(argv))

\* main is started with arguments that make it run
MainRuns ==
    /\ pc = "idle"
    /\ \E argv \in Argvs : MainRun(argv)

MainNext ==
    \/ MainLists
    \/ MainRuns

MainSpec == MainInit /\ [][MainNext]_vars

(***************************************************************************)
(* Properties of main and of the listing (MainSpec).                       *)
(***************************************************************************)
\* the sessions of the output directory whose progress file parses
ParsingSessions == {s \in SessionIds : output_dir[s]["progress"].st = "valid"}

\* the listing is sorted by session id, greatest first
SortedDescending(listing) ==
    \A i \in 1..(Len(listing) - 1) : StrLeq(listing[i + 1].session_id, listing[i].session_id)

\* C21: the listing holds one entry for every session whose progress file
\* parses, under the id of that session and with the numbers of patents and
\* entities of that file, and no other entry; it is sorted by session id,
\* greatest first.
C21_ListsParsingSessions ==
    pc = "listed" =>
        /\ Len(sessions) = Cardinality(ParsingSessions)
        /\ \A s \in ParsingSessions :
            \E i \in 1..Len(sessions) :
                /\ sessions[i].session_id = s
                /\ sessions[i].processed_patents =
                        Len(output_dir[s]["progress"].content.processed_patents)
                /\ sessions[i].processed_entities =
                        Len(output_dir[s]["progress"].content.processed_entities)
        /\ SortedDescending(sessions)

\* what holds of the code: the same, each entry being under the name of the
\* progress file with every '_progress.json' taken out of it
ListsParsingFiles ==
    pc = "listed" =>
        /\ Len(sessions) = Cardinality(ParsingSessions)
        /\ \E at \in [ParsingSessions -> 1..Len(sessions)] :
            /\ \A s, t \in ParsingSessions : s # t => at[s] # at[t]
            /\ \A s \in ParsingSessions :
                /\ sessions[at[s]].session_id = Replace(ProgressFileName(s), ProgressSuffix)
                /\ sessions[at[s]].processed_patents =
                        Len(output_dir[s]["progress"].content.processed_patents)
                /\ sessions[at[s]].processed_entities =
                        Len(output_dir[s]["progress"].content.processed_entities)
        /\ SortedDescending(sessions)

\* the session id id is the greatest of the listing
GreatestListed(listing, id) ==
    /\ \E i \in 1..Len(listing) : listing[i].session_id = id
    /\ \A i \in 1..Len(listing) : StrLeq(listing[i].session_id, id)

\* the engine runs a session made now, of which the directory held nothing
FreshSession ==
    /\ session_id' = <<ToString(now \div TicksPerSecond)>>
    /\ session_id' \notin SessionsOnDisk
    /\ data' = LoadAll(NoFiles)

\* C22: main started with '--session id' runs the session id; started with
\* no id and without '--new' it runs the greatest of the listed sessions
\* when the listing is not empty, with what the files of that session hold;
\* started with '--new', or with no id when nothing is listed, it runs a
\* fresh session.
C22_SessionSelection ==
    [][\A argv \in Argvs :
            MainRun(argv) =>
                /\ (argv.opt = "--session" /\ HasId(argv.arg)) =>
                        session_id' = argv.arg.value
                /\ (argv.opt = "" /\ sessions' # <<>>) =>
                        /\ GreatestListed(sessions', session_id')
                        /\ \A k \in Kinds : data'[k] = ContentOf(output_dir[session_id'], k)
                /\ (argv.opt = "--new" \/ (argv.opt = "" /\ sessions' = <<>>)) =>
                        FreshSession
      ]_vars

\* what holds of the code: the same, where the session run in the last
\* case has the id of the current second, whatever the directory holds
\* under that id
SessionSelectionSameSecond ==
    [][\A argv \in Argvs :
            MainRun(argv) =>
                /\ (argv.opt = "--session" /\ HasId(argv.arg)) =>
                        session_id' = argv.arg.value
                /\ (argv.opt = "" /\ sessions' # <<>>) =>
                        /\ GreatestListed(sessions', session_id')
                        /\ \A k \in Kinds : data'[k] = ContentOf(output_dir[session_id'], k)
                /\ (argv.opt = "--new" \/ (argv.opt = "" /\ sessions' = <<>>)) =>
                        /\ session_id' = <<ToString(now \div TicksPerSecond)>>
                        /\ \A k \in Kinds : data'[k] = ContentOf(output_dir[session_id'], k)
      ]_vars

(***************************************************************************)
(* Properties of a run of the orchestrator (Spec).                         *)
(***************************************************************************)
\* C23: in a run, every step leaves every collection of the store in memory
\* (the ledger of patents, the ledger of entities and the three result
\* lists) with its previous content as a prefix of its new content.
C23_AppendOnly ==
    [][\A k \in Kinds : Extends(k, data[k], data'[k])]_vars

\* a run has marked patents in two cycles and holds the records of two
\* calls in one result list
C23_Witness ==
    /\ Len(data["progress"].processed_patents) >= 2
    /\ pc = "p_loop"
    /\ Len(patents) < Len(data["progress"].processed_patents)
    /\ \E k \in ResultKinds : Len(data[k]) >= 2

\* C24: the stop flag is false when the run starts, only a step of the
\* signal handler makes it true, and no step makes it false again.
C24_StopFlagMonotonic ==
    /\ ~should_stop
    /\ [][/\ should_stop => should_stop'
          /\ (~should_stop /\ should_stop') => Signal
         ]_vars

\* a run that was signalled after it had sent requests has ended, the flag
\* still set
C24_Witness ==
    /\ should_stop
    /\ pc = "done"
    /\ stats.total_requests > 0

\* a DISPATCHING step: calls of process_batch_async are created for chunks
DispatchStep ==
    /\ pc' \in {"p_gather", "e_call"}
    /\ calls' # calls
    /\ calls' # <<>>
    /\ \A c \in 1..Len(calls') : calls'[c].st = "waiting"

\* C25: once the stop flag is set no chunk is dispatched any more, for
\* patents and for entities, and the run ends at the top of a loop only,
\* never between the dispatch of a chunk and its persist.
C25_StopEndsAfterPersist ==
    [][/\ should_stop => ~DispatchStep
       /\ (should_stop /\ pc # "done" /\ pc' = "done") => pc = "e_loop"
      ]_vars

\* what holds of the code: the same for the chunks of patents, and for the
\* first chunk of a fetch of entities
StopEndsPatentDispatch ==
    [][/\ (should_stop /\ DispatchStep) => (pc' = "e_call" /\ pc # "e_loop")
       /\ (should_stop /\ pc # "done" /\ pc' = "done") => pc = "e_loop"
      ]_vars

\* C26: a fetch of entities starts one call for each of its chunks, all of
\* them at once, and the names of the fetch are marked processed together,
\* in one step.
C26_EntityChunksConcurrent ==
    [][/\ (pc = "e_loop" /\ pc' = "e_call") =>
            Len(calls') = Len(Chunks(entities', EntityBatchSize))
       /\ (data'["progress"].processed_entities # data["progress"].processed_entities) =>
            \A i \in 1..Len(entities) : IsEntityProcessed(data', entities[i])
      ]_vars

\* what holds of the code: the entity loop has one call at a time, and a
\* step that marks names marks those of the chunk of that call
EntityChunksSerial ==
    [][/\ pc' \in {"e_call", "e_mark"} => Len(calls') = 1
       /\ (data'["progress"].processed_entities # data["progress"].processed_entities) =>
            data'["progress"].processed_entities =
                data["progress"].processed_entities \o calls[1].ids
      ]_vars

\* a step of the top of a loop whose fetch returns nothing
EmptyFetchStep ==
    /\ ~should_stop
    /\ pc' # pc
    /\ \/ pc = "p_loop" /\ GetUnprocessedPatents(data, PatentLimit) = <<>>
       \/ /\ pc = "e_loop"
          /\ config.enable_location_extraction
          /\ GetUnprocessedEntities(data, EntityLimit) = <<>>

\* ... leaves the loop with no call and the store as it was
LeavesLoopUntouched ==
    /\ pc = "p_loop" => pc' = "e_loop"
    /\ pc = "e_loop" => pc' = "done"
    /\ calls' = <<>>
    /\ stats' = stats
    /\ data' = data
    /\ files' = files

\* C27: a fetch of patents returns at most batch_size * max_concurrency
\* patents, and a fetch of entities at most that many entities, with the
\* batch size of entities; a fetch that returns nothing ends the loop
\* without a call and without a change of the store.
C27_FetchBounded ==
    [][/\ (pc = "p_loop" /\ pc' = "p_gather") =>
            Len(patents') <= config.batch_size * config.max_concurrent_requests
       /\ (pc = "e_loop" /\ pc' = "e_call") =>
            Len(entities') <= EntityBatchSize * config.max_concurrent_requests
       /\ EmptyFetchStep => LeavesLoopUntouched
      ]_vars

\* what holds of the code: the same, a fetch of entities returning at most
\* batch_size * 10 entities whatever max_concurrency is
FetchBoundedByTen ==
    [][/\ (pc = "p_loop" /\ pc' = "p_gather") =>
            Len(patents') <= config.batch_size * config.max_concurrent_requests
       /\ (pc = "e_loop" /\ pc' = "e_call") =>
            Len(entities') <= EntityBatchSize * EntityFetchFactor
       /\ EmptyFetchStep => LeavesLoopUntouched
      ]_vars

(***************************************************************************)
(* DispatchSpec: process_patents_async builds the tasks of a fetch of any  *)
(* number of patents, with any batch_size and any task types enabled.      *)
(***************************************************************************)
DispatchInit ==
    /\ config \in {cf \in Configs(MaxDispatchBatch, 1, 0) : cf.enable_location_extraction}
    /\ files = NoFiles
    /\ data = LoadAll(files)
    /\ should_stop = FALSE
    /\ stats = ZeroStats
    /\ semaphore = config.max_concurrent_requests
    /\ calls = <<>>
    /\ \E n \in 0..MaxDispatchItems : patents = [i \in 1..n |-> i]
    /\ entities = <<>>
    /\ idx = 0
    /\ pc = "dispatch"
    /\ nproc = 1
    /\ world = [api |-> "answers", faults |-> 0]
    /\ ghost = NoGhost
    /\ OneSession

\* lines 639-653 of process_patents_async
Dispatch ==
    /\ pc = "dispatch"
    /\ calls' = BuildTasks(Chunks(patents, config.batch_size))
    /\ pc' = "dispatched"
    /\ UNCHANGED <<config, sessions, session_id, output_dir, now, data, files,
                   should_stop, stats, semaphore, patents, entities, idx, nproc,
                   world, ghost>>

DispatchNext == Dispatch

DispatchSpec == DispatchInit /\ [][DispatchNext]_vars

(***************************************************************************)
(* Properties of the dispatch (DispatchSpec).                              *)
(***************************************************************************)
\* the task types of patents that are enabled, in the order of the code
EnabledTypes ==
    SelectSeq(<<"green", "tech">>,
              LAMBDA t : IF t = "green" THEN config.enable_green_classification
                         ELSE config.enable_tech_classification)

\* the number of chunks of n items: n / batch_size, rounded up
NumChunks(n) == (n + config.batch_size - 1) \div config.batch_size

\* chunk j of the fetch: batch_size consecutive items, fewer in the last
ChunkAt(j) ==
    SubSeq(patents, (j - 1) * config.batch_size + 1,
           Min(j * config.batch_size, Len(patents)))

\* C28: the calls built for a fetch are, chunk after chunk of batch_size
\* consecutive items in fetch order (the last chunk holding what is left),
\* one call for every enabled task type, and no other call.
C28_ChunksPartitionFetch ==
    pc = "dispatched" =>
        LET T == Len(EnabledTypes)
        IN  /\ Len(calls) = NumChunks(Len(patents)) * T
            /\ \A j \in 1..NumChunks(Len(patents)), t \in 1..T :
                LET call == calls[(j - 1) * T + t]
                IN  /\ call.task_type = EnabledTypes[t]
                    /\ call.ids = ChunkAt(j)
                    /\ call.st = "waiting"

\* 12 patents with batch_size 10 and both task types: the calls of a chunk
\* of 10 and of a chunk of 2
C28_Witness ==
    /\ pc = "dispatched"
    /\ Len(patents) = 12
    /\ config.batch_size = 10
    /\ Len(calls) = 4
    /\ calls[1].ids = <<1, 2, 3, 4, 5, 6, 7, 8, 9, 10>> /\ calls[1].task_type = "green"
    /\ calls[2].ids = calls[1].ids /\ calls[2].task_type = "tech"
    /\ calls[3].ids = <<11, 12>> /\ calls[3].task_type = "green"
    /\ calls[4].ids = <<11, 12>> /\ calls[4].task_type = "tech"

(***************************************************************************)
(* The candidate set across the cycles of one run (Spec).                  *)
(***************************************************************************)
\* the catalog items whose key is not in the ledger
UnmarkedPatents(d) == {id \in Range(all_patents) : ~IsPatentProcessed(d, id)}

UnmarkedEntities(d) == {e \in Range(all_entities) : ~IsEntityProcessed(d, e)}

\* the step that ends a patent cycle / an entity cycle
PatentCycleEnds == PatentsAtStore /\ PatentsAtMark /\ pc' = "p_loop"

EntityCycleEnds == EntitiesAtMark /\ pc' = "e_loop"

\* the items not in the ledger after a cycle are a strict subset of those
\* before its last store operation, and none of the fetched items is left
ShrinksBy(before, after, fetched) ==
    /\ after \subseteq before
    /\ after # before
    /\ after \cap Range(fetched) = {}

\* C29: within a run the candidate set shrinks strictly with every cycle
\* that fetched something: at the end of a cycle the catalog items not in the
\* ledger are a strict subset of what they were, none of the fetched items
\* is among them, and the next fetch returns none of the items of the fetch
\* before it.
C29_CandidatesShrink ==
    [][/\ PatentCycleEnds =>
            ShrinksBy(UnmarkedPatents(data), UnmarkedPatents(data'), patents)
       /\ EntityCycleEnds =>
            ShrinksBy(UnmarkedEntities(data), UnmarkedEntities(data'), entities)
       /\ (pc = "p_loop" /\ pc' = "p_gather") =>
            Range(patents) \cap Range(patents') = {}
       /\ (pc = "e_loop" /\ pc' = "e_call") =>
            Range(entities) \cap Range(entities') = {}
      ]_vars

\* the same, for the configurations with a patent task type enabled
CandidatesShrinkWithPatentTasks ==
    [][(config.enable_green_classification \/ config.enable_tech_classification)
        => /\ PatentCycleEnds =>
                ShrinksBy(UnmarkedPatents(data), UnmarkedPatents(data'), patents)
           /\ EntityCycleEnds =>
                ShrinksBy(UnmarkedEntities(data), UnmarkedEntities(data'), entities)
           /\ (pc = "p_loop" /\ pc' = "p_gather") =>
                Range(patents) \cap Range(patents') = {}
           /\ (pc = "e_loop" /\ pc' = "e_call") =>
                Range(entities) \cap Range(entities') = {}
      ]_vars

(***************************************************************************)
(* The total-request counter (ClientSpec).                                 *)
(***************************************************************************)
\* the attempts a call has made: the requests it has sent, each of which has
\* ended (in a response, a timeout or an exception) or is in flight
Attempts(call) == IF call.st = "waiting" THEN 0 ELSE call.retry_count + 1

RECURSIVE SumAttempts(_)
SumAttempts(i) ==
    IF i > Len(calls) THEN 0 ELSE Attempts(calls[i]) + SumAttempts(i + 1)

\* C30: every attempt, the first one and each retry alike, increments the
\* total-request counter by exactly one, however it ends: the counter is
\* the number of attempts made, and once every call has returned it is the
\* number of calls plus the number of retries counted.
C30_OneRequestPerAttempt ==
    /\ stats.total_requests = SumAttempts(1)
    /\ AllDone => stats.total_requests = Len(calls) + stats.retries

\* two calls, max_retries = 2: the first made two failed attempts of more
\* than one kind and then succeeded, the second gave up after three failures
C30_Witness ==
    /\ pc = "client"
    /\ Len(calls) = 2
    /\ AllDone
    /\ config.max_retries = 2
    /\ calls[1].retry_count = 2
    /\ calls[1].seen.failures = "mixed"
    /\ calls[1].response.tag = "text"
    /\ calls[2].retry_count = 2
    /\ calls[2].response.tag = "None"
    /\ stats.total_requests = 6
    /\ stats.retries = 4

(***************************************************************************)
(* The cumulative latency (ClientSpec).                                    *)
(***************************************************************************)
\* the step in which an attempt of call c ends
AttemptEnds(c) == calls[c].st = "inflight" /\ calls'[c].st # "inflight"

\* the attempt that ends in this step returns the text of a response
EndsInSuccess(c) ==
    AttemptEnds(c) /\ calls'[c].st = "done" /\ calls'[c].response.tag = "text"

\* C31: the cumulative latency changes only in a step in which an attempt
\* ends in success; an attempt that ends with an error status, a timeout or
\* an exception leaves it unchanged.
C31_LatencyOnSuccessOnly ==
    [][stats'.total_time # stats.total_time
          => \E c \in 1..Len(calls) : EndsInSuccess(c)]_vars

\* what the code keeps: an attempt whose request ended in a timeout or an
\* exception, the first failure of its call, leaves the latency unchanged,
\* and no step adds more than the elapsed time of one request
LatencyOnResponseOnly ==
    [][/\ stats'.total_time \in {stats.total_time, stats.total_time + 1}
       /\ \A c \in 1..Len(calls) :
            (AttemptEnds(c) /\ calls[c].seen.failures = "none"
                            /\ calls'[c].seen.failures = "transport")
                => stats'.total_time = stats.total_time]_vars

PresentFileIsWholeSnapshot ==
    /\ [](pc = "store" =>
            \A k \in Kinds :
                files[k].st = "valid" => Extends(k, files[k].content, data[k]))
    /\ [][StoreCallStep =>
            \A k \in Kinds :
                files'[k].st = "valid" =>
                    files'[k].content \in {files[k].content, data'[k]}
         ]_vars

(***************************************************************************)
(* The files at the checkpoints of a run whose saves succeed (Spec).       *)
(***************************************************************************)
\* the top of the patent loop, the top of the entity loop, and the end of
\* generate_all_async
AtCheckpoint == pc \in {"p_loop", "e_loop", "done"}

\* every file that has been written holds the collection of its kind
WrittenFilesCurrent ==
    \A k \in Kinds : files[k].st = "valid" => files[k].content = data[k]

\* the keys of the last completed cycle of each loop are in the ledger of
\* the progress file (patents and entities hold the fetch of that cycle)
LastCycleInPersistedLedger ==
    LET ledger == LoadJson(files, "progress")
    IN  /\ Range(patents) \subseteq Range(ledger.processed_patents)
        /\ Range(entities) \subseteq Range(ledger.processed_entities)

\* C33: in a run that started from a session it could load and whose saves
\* all succeed, at every checkpoint every file that has been written holds
\* the in-memory collection of its kind, and the ledger of the progress file
\* holds every key fetched in the cycles completed so far.
C33_ConsistentAtCheckpoints ==
    AtCheckpoint => (WrittenFilesCurrent /\ LastCycleInPersistedLedger)

\* the same, for the configurations with a patent task type enabled; the
\* written files hold the collections in every configuration
ConsistentAtCheckpointsWithPatentTasks ==
    /\ AtCheckpoint => WrittenFilesCurrent
    /\ (AtCheckpoint /\ (config.enable_green_classification
                            \/ config.enable_tech_classification))
            => LastCycleInPersistedLedger

(***************************************************************************)
(* Results before keys (SessionSpec).                                      *)
(***************************************************************************)
\* the keys of the ledger of the progress file fs that records of kind k
\* are about
PersistedKeys(fs, k) ==
    IF k = "entity_locations"
    THEN Range(LoadJson(fs, "progress").processed_entities)
    ELSE Range(LoadJson(fs, "progress").processed_patents)

\* the file of kind k in fs holds every record of the collection coll that
\* is about a key of the persisted ledger
RecordsOfPersistedKeys(fs, k, coll) ==
    \A i \in 1..Len(coll) :
        Range(coll[i].ids) \cap PersistedKeys(fs, k) # {}
            => CountOf(LoadJson(fs, k), coll[i]) >= CountOf(coll, coll[i])

\* no save of the session has failed or been interrupted so far
WritesSucceeded == world.faults = MaxFaults

\* the step that writes the keys of a cycle (patents) or of a chunk
\* (entities) to the progress file
MarkStep ==
    \/ PatentsAtStore /\ PatentsAtMark /\ pc' \in {"p_loop", "dead"}
    \/ EntitiesAtMark /\ pc' \in {"e_call", "e_loop", "dead"}

\* the records parsed for the calls of the cycle are in their result files
CycleRecordsPersisted ==
    \A c \in 1..Len(calls) :
        Truthy(calls[c].result) =>
            \A i \in 1..Len(Records(calls[c])) :
                CountOf(LoadJson(files, KindOf(calls[c].task_type)),
                        Records(calls[c])[i]) >= Len(Records(calls[c]))

\* C34: with saves succeeding, the records of a cycle are in their result
\* files when its keys are written to the progress file, and whenever the
\* process dies, inside a save or outside, the result files hold every
\* record the process had for a key of the persisted ledger.
C34_ResultsBeforeKeys ==
    [][WritesSucceeded =>
        /\ MarkStep => CycleRecordsPersisted
        /\ (Alive /\ pc' = "dead") =>
                \A k \in ResultKinds : RecordsOfPersistedKeys(files', k, data[k])
      ]_vars

\* what the code keeps: the order of the writes, and the records of the
\* persisted keys when the process dies outside a save
ResultsBeforeKeysOutsideSave ==
    [][WritesSucceeded =>
        /\ MarkStep => CycleRecordsPersisted
        /\ (Alive /\ pc' = "dead" /\ world' = world) =>
                \A k \in ResultKinds : RecordsOfPersistedKeys(files', k, data[k])
      ]_vars

(***************************************************************************)
(* The slots of a call (ClientSpec).                                       *)
(***************************************************************************)
\* C35: a call holds at most one slot of the semaphore at any time, also
\* while it backs off and while it retries: the slots taken are never more
\* than the calls in progress.
C35_OneSlotPerCall ==
    /\ \A c \in 1..Len(calls) : Held(calls[c]) <= 1
    /\ config.max_concurrent_requests - semaphore
            <= Cardinality({c \in 1..Len(calls) : calls[c].st \in {"inflight", "backoff"}})

\* what the code keeps: a call holds one slot for each of its attempts so
\* far, and the slots held never exceed the slots of the semaphore
SlotPerAttempt ==
    /\ \A c \in 1..Len(calls) :
        Held(calls[c]) \in {0, calls[c].retry_count + 1}
    /\ \A c \in 1..Len(calls) :
        calls[c].st \in {"inflight", "backoff"} => Held(calls[c]) = Attempts(calls[c])
    /\ semaphore >= 0

(***************************************************************************)
(* The counters between calls (ClientSpec).                                *)
(***************************************************************************)
\* no call of call_llm_async is between its entry and its return
NoCallInProgress == \A c \in 1..Len(calls) : calls[c].st \in {"waiting", "done"}

\* the calls that have returned
CompletedCalls == Cardinality({c \in 1..Len(calls) : calls[c].st = "done"})

CountersBalance ==
    /\ stats.total_requests
          = stats.successful_requests + stats.failed_requests + stats.retries
    /\ stats.successful_requests + stats.failed_requests = CompletedCalls

\* C36: whenever no call is in progress, every request counted is counted
\* once more as a success, a failure or a retry, and the successes and the
\* failures together are the calls that have returned.
C36_CountersBalance == NoCallInProgress => CountersBalance

\* the same, when no attempt of a call got a response with status 200 that
\* could not be used
CountersBalanceWithoutEnvelopeFailures ==
    (/\ NoCallInProgress
     /\ \A c \in 1..Len(calls) :
            calls[c].seen.failures \in {"none", "status", "transport"})
        => CountersBalance

(***************************************************************************)
(* A persist that fails (StoreSpec).                                       *)
(***************************************************************************)
\* C37: when the persist of a call fails, at whichever step of the save,
\* every file that was persisted before the call is at its final path after
\* it, unchanged.
C37_FailedPersistKeepsFile ==
    [][FailedPersist =>
            \A k \in Kinds : files[k].st = "valid" => files'[k] = files[k]
      ]_vars

\* what the code keeps: a failed persist leaves the file unchanged or leaves
\* no file, and changes the file of no other kind
FailedPersistKeepsOrRemoves ==
    [][FailedPersist =>
        /\ \A k \in Kinds : files'[k] \in {files[k], Missing(k)}
        /\ Cardinality({k \in Kinds : files'[k] # files[k]}) <= 1
      ]_vars

(***************************************************************************)
(* Patents before entities (Spec).                                         *)
(***************************************************************************)
\* process_patents_async has not returned
InPatentLoop == pc \in {"p_loop", "p_gather", "p_persist"}

\* the patent loop has not ended, or it ended because the stop flag was set
\* (ghost.exhausted records that it ended with nothing left to fetch)
BeforeEntitiesOrStopped == InPatentLoop \/ ~ghost.exhausted

\* no entity has been fetched, no location call made, and the entity ledger
\* and the locations are as the run found them (empty, in a new session)
NoEntityWork ==
    /\ entities = <<>>
    /\ \A c \in 1..Len(calls) : calls[c].task_type # "location"
    /\ data["progress"].processed_entities = <<>>
    /\ data["entity_locations"] = <<>>

\* C38: nothing of the entity loop happens before the patent loop has
\* ended, and when the patent loop ended because the stop flag was set,
\* nothing of the entity loop happens in the run at all.
C38_PatentsBeforeEntities == BeforeEntitiesOrStopped => NoEntityWork

\* the run has ended after a stop during the patent loop, with location
\* extraction enabled, patents marked and every entity still to do
C38_Witness ==
    /\ pc = "done"
    /\ should_stop
    /\ ~ghost.exhausted
    /\ config.enable_location_extraction
    /\ data["progress"].processed_patents # <<>>
    /\ GetUnprocessedPatents(data, PatentLimit) # <<>>
    /\ GetUnprocessedEntities(data, EntityLimit) # <<>>
    /\ NoEntityWork

(***************************************************************************)
(* DirectorySpec: main() is started in an output directory that holds the  *)
(* files of earlier sessions; the engine it creates calls append_data and  *)
(* mark_processed_* in any order, a save can fail at any step, and the     *)
(* process ends; main() can then be started to list the sessions.  The    *)
(* engine is the last of those the model makes.                            *)
(***************************************************************************)
\* f'_{kind}.json' of JSONStorage.__init__, lines 50-53
KindSuffix(kind) ==
    CASE kind = "green_classifications" -> "_green_classifications.json"
      [] kind = "tech_classifications" -> "_tech_classifications.json"
      [] kind = "entity_locations" -> "_entity_locations.json"
      [] kind = "progress" -> ProgressSuffix

\* file names that do not carry the session id
FileNameWithoutId(id, kind) == <<KindSuffix(kind)>>

\* the name of the file of `kind` of the session id: f'{session_id}_{kind}.json'
FileName(id, kind) == id \o <<KindSuffix(kind)>>

\* filepath + '.tmp' of _save_json (line 93)
TempName(id, kind) == FileName(id, kind) \o <<".tmp">>

\* the names a store of the session id opens, removes and renames
SessionFileNames(id) ==
    {FileName(id, k) : k \in Kinds} \cup {TempName(id, k) : k \in Kinds}

\* the files at their final paths: those of the output directory, and for
\* the session of the running engine those it has written
Disk == [output_dir EXCEPT ![session_id] = files]

\* the output directories whose sessions have no progress file, one with
\* the first patent marked, or one that does not parse
SmallDirectories ==
    {d \in Directories :
        \A s \in SessionIds :
            d[s]["progress"].st = "valid"
                => d[s]["progress"].content =
                      [processed_patents |-> <<1>>, processed_entities |-> <<>>]}

DirectoryInit ==
    /\ config \in {cf \in Configs(1, 1, 0) :
                      /\ cf.enable_green_classification
                      /\ cf.enable_tech_classification
                      /\ cf.enable_location_extraction}
    /\ files = NoFiles
    /\ data = LoadAll(files)
    /\ should_stop = FALSE
    /\ stats = ZeroStats
    /\ semaphore = config.max_concurrent_requests
    /\ calls = <<>>
    /\ patents = <<>>
    /\ entities = <<>>
    /\ idx = 0
    /\ pc = "idle"
    /\ nproc = MaxEngines - 1
    /\ world = [api |-> "answers", faults |-> MaxFaults]
    /\ ghost = NoGhost
    /\ session_id = <<>>
    /\ output_dir \in SmallDirectories
    /\ now = 0
    /\ sessions = <<>>

\* a call of append_data or mark_processed_* of the engine returns
DirectoryWrite ==
    /\ pc = "engine"
    /\ StoreSize(data) < MaxDirectoryItems
    /\ \E kind \in Kinds : StoreCall(kind)

DirectoryNext ==
    \/ MainLists
    \/ MainRuns
    \/ DirectoryWrite
    \/ EngineEnds

DirectorySpec == DirectoryInit /\ [][DirectoryNext]_vars

\* the file with the name f on the disk d
FileAt(d, f) ==
    LET p == CHOOSE q \in SessionIds \X Kinds : FileName(q[1], q[2]) = f
    IN  d[p[1]][p[2]]

FinalNames == {FileName(s, k) : s \in SessionIds, k \in Kinds}

\* C39: the names of the files and temporary files of two session ids are
\* different names, and a step of a run with session id S (its creation, by
\* an id or by the listing of auto-resume, its saves, failed or not, and its
\* end) and a listing leave every file unchanged whose name is not one of
\* the names of S; a listing and the creation of an engine change no file.
C39_OtherSessionsUntouched ==
    /\ \A s, t \in SessionIds :
            s # t => SessionFileNames(s) \cap SessionFileNames(t) = {}
    /\ [][/\ \A f \in FinalNames :
                f \notin (SessionFileNames(session_id) \cup SessionFileNames(session_id'))
                    => FileAt(Disk', f) = FileAt(Disk, f)
          /\ pc = "idle" => Disk' = Disk
         ]_vars

\* an engine made by auto-resume has changed the files of its session, one
\* of its saves has failed, and the directory holds the files of another
\* session
C39_Witness ==
    /\ pc = "engine"
    /\ sessions # <<>>
    /\ world.faults < MaxFaults
    /\ files # output_dir[session_id]
    /\ \E t \in SessionIds \ {session_id} : output_dir[t]["progress"].st = "valid"

====
